---- MODULE Spec2Model ----
(***************************************************************************)
(* The XMR Maker's per-swap state machine of atomic-swap                    *)
(* (protocol/xmrmaker/swap_state.go and the claim code of the same         *)
(* package): construction of a swapState, the event channel and its        *)
(* single consumer, Exit/exit with its deferred clean-up, lockFunds,       *)
(* claimFunds and reclaimMonero.                                           *)
(*                                                                         *)
(* The event loop, the per-event handlers (handleEvent...), the contract   *)
(* event watcher, the Swap Manager and the network caller of the           *)
(* constructors follow the design specification (sections 4.7, 4.8, 5):    *)
(* the loop is a single consumer that stops once the per-swap context is   *)
(* cancelled, and a handler that fails leaves the swap state as it was.    *)
(*                                                                         *)
(* The functions of the claim path (claimFunds, discoverRelayersAndClaim,  *)
(* waitForClaimReceipt, checkClaimedLog) and the relayer's                 *)
(* validateClaimRequest are also run on their own, step by step, over      *)
(* bounded inputs: CallSpec.  So are the signing of a relayed claim        *)
(* (relayer/forwarder.go), the p2p message codec (net/message), offers     *)
(* (common/types/hash.go), getSecret, WaitForEthBlockAfterTimestamp and    *)
(* validateChainID.                                                        *)
(***************************************************************************)
EXTENDS Integers, Sequences, FiniteSets, TLC

\* ------------------------------------------------------------- bounds
\* number of callers of Exit (the network on stream close, the swap_refund RPC)
MaxExitCalls == 2
\* number of NotifyETHLocked messages the peer sends
MaxPeerMsgs == 1

\* ---------------------------------------------------- program constants
\* eventCh: make(chan Event, 1)
EventChCap == 1

\* ------------------------------------------------------------- state
VARIABLES
    mode,               \* "start": newSwapStateFromStart, "ongoing": newSwapStateFromOngoing
    useRelayer,         \* offerExtra.UseRelayer
    ctor,               \* position of the constructing caller
    nextExpectedEvent,  \* swapState.nextExpectedEvent
    status,             \* swapState.info.Status
    fundsLocked,        \* swapState.fundsLocked
    fields,             \* which of the swapState's key and contract fields are set
    db,                 \* Recovery DB: the records held for this offer ID
    ongoing,            \* Swap Manager: the swap is registered as ongoing
    offers,             \* offer manager: the swap's offer is in the set of offers
    ctxCancelled,       \* the per-swap context is cancelled
    done,               \* number of close(s.done) executed
    crashed,            \* the process panicked
    chain,              \* stage of the swap in the SwapFactory contract
    logs,               \* Ready / Refunded logs the watchers have not delivered yet
    eventCh,            \* swapState.eventCh
    pc,                 \* position of each event-loop goroutine
    cur,                \* the event each event-loop goroutine is handling
    snd,                \* each sender's state: idle, waiting on errCh, or the result
    peerMsgs,           \* NotifyETHLocked messages sent so far
    outbox,             \* everything handed to the outside: messages, transactions
    acts,               \* irreversible actions issued, each with the DB as it was
    deletedAt,          \* the statuses at which DeleteSwap was called
    putSeq,             \* number of events put on eventCh so far
    takeSeq,            \* number of events taken from eventCh so far
    inOrder,            \* every event was taken in the order of the puts
    exitRet,            \* how the last exit() returned
    built,              \* what the constructor created, and the error it returned
    claimErr,           \* claimFunds has returned an error
    call                \* the function call examined on its own: inputs, locals, result

\* the state of the swap
swapVars == <<mode, useRelayer, ctor, nextExpectedEvent, status, fundsLocked, fields,
              db, ongoing, offers, ctxCancelled, done, crashed, chain, logs, eventCh,
              pc, cur, snd, peerMsgs, outbox, acts, deletedAt, putSeq, takeSeq, inOrder,
              exitRet, built, claimErr>>

vars == <<swapVars, call>>

\* ------------------------------------------------------------- values
ExitCallers == 1..MaxExitCalls
Peer == <<"peer", 0>>
Watcher == <<"watcher", 0>>
ExitCaller(i) == <<"exit", i>>
Senders == {Peer, Watcher} \cup {ExitCaller(i) : i \in ExitCallers}

NoEvent == [type |-> "none", from |-> <<"none", 0>>, seq |-> 0]

\* no exit() has returned yet
NoExit ==
    [via |-> "none", nee0 |-> "none", inner |-> "none", signalled |-> FALSE,
     err |-> FALSE, status1 |-> "none", ran |-> FALSE, changed |-> FALSE,
     locked |-> FALSE, transferred |-> FALSE]

TerminalStatuses == {"CompletedSuccess", "CompletedRefund", "CompletedAbort"}

\* the statuses a swap of the XMR Maker can be persisted with
PersistedStatuses == {"KeysExchanged", "XMRLocked"} \cup TerminalStatuses

\* block numbers. StartNumber: the block at which the swap started, kept as
\* ethSwapInfo.StartNumber. RestartNumber: the latest block when the process
\* came up again.
StartNumber == 0
RestartNumber == 1

\* the constructor has not created anything yet
NotBuilt == [err |-> "none", ctx |-> FALSE, watchers |-> {}, ethStartNumber |-> -1]

\* newSwapState: the per-swap context, then the Ready and the Refunded log
\* filters, both from ethStartNumber
newSwapState(ethStartNumber) ==
    [err |-> "none", ctx |-> TRUE, watchers |-> {"Ready", "Refunded"},
     ethStartNumber |-> ethStartNumber]

\* newSwapStateFromStart passes the number of the latest header, which is the
\* block the swap starts at
ethHeaderNumber == StartNumber

\* newSwapStateFromOngoing passes ethSwapInfo.StartNumber
ethSwapInfoStartNumber == StartNumber

\* no function call is examined
NoCall == [fn |-> "none"]

\* the fields newSwapStateFromOngoing sets after newSwapState returned
OngoingFields == {"contract", "timeouts", "privkeys", "pubkeys", "contractSwapID", "contractSwap"}
\* the fields generateAndSetKeys sets
StartKeyFields == {"dleqProof", "secp256k1Pub", "privkeys", "pubkeys"}

\* go s.runHandleEvents(): the event-loop goroutines newSwapState starts
TwoEventLoops == {1, 2}
eventLoopsStarted == {1}
Loops == eventLoopsStarted

\* nextExpectedEventFromStatus
nextExpectedEventFromStatus(st) ==
    IF st = "XMRLocked" THEN "ContractReady" ELSE "ETHLocked"

\* SendKeysMessage: the key material the message carries
SendKeysMessage ==
    [kind |-> "SendKeysMessage",
     carries |-> {"providedAmount", "publicSpendKey", "privateViewKey", "dleqProof",
                  "secp256k1PublicKey", "ethAddress"}]

\* ------------------------------------------------------------- Init
SwapInit ==
    /\ mode \in {"start", "ongoing"}
    /\ useRelayer \in BOOLEAN
    /\ ctor = "new"
    /\ status \in (IF mode = "start" THEN {"KeysExchanged"} ELSE PersistedStatuses)
    /\ nextExpectedEvent = nextExpectedEventFromStatus(status)
    /\ fundsLocked = FALSE
    /\ fields = {}
    /\ db = IF mode = "start" THEN {}
            ELSE {"swap-private-key", "counterparty-swap-keys", "eth-swap-info"}
    /\ ongoing = (mode = "ongoing")
    /\ offers = FALSE
    /\ ctxCancelled = FALSE
    /\ done = 0
    /\ crashed = FALSE
    /\ chain \in (IF mode = "start" THEN {"none"}
                 ELSE IF status = "XMRLocked" THEN {"pending", "ready"}
                 ELSE {"pending"})
    /\ logs = IF chain = "ready" THEN {[topic |-> "Ready", block |-> StartNumber]} ELSE {}
    /\ eventCh = <<>>
    /\ pc = [l \in Loops |-> "off"]
    /\ cur = [l \in Loops |-> NoEvent]
    /\ snd = [s \in Senders |-> "idle"]
    /\ peerMsgs = 0
    /\ outbox = {}
    /\ acts = {}
    /\ deletedAt = {}
    /\ putSeq = 0
    /\ takeSeq = 0
    /\ inOrder = TRUE
    /\ exitRet = NoExit
    /\ built = NotBuilt
    /\ claimErr = FALSE

Init == SwapInit /\ call = NoCall

\* ------------------------------------------------------ pure operators

\* generateAndSetKeys: sets the key fields, then writes our swap private key to
\* the Recovery DB and returns the error of that write
generateAndSetKeysIgnoringError(dbOk) ==
    [err |-> FALSE,
     fields |-> fields \cup StartKeyFields,
     db |-> IF dbOk THEN db \cup {"swap-private-key"} ELSE db]
generateAndSetKeys(dbOk) ==
    [err |-> ~dbOk,
     fields |-> fields \cup StartKeyFields,
     db |-> IF dbOk THEN db \cup {"swap-private-key"} ELSE db]

\* setXMRTakerKeys: sets the counterparty's keys, then writes them to the
\* Recovery DB and returns the error of that write
setXMRTakerKeys(dbOk) ==
    [err |-> ~dbOk,
     fields |-> fields \cup {"xmrtakerPublicSpendKey", "xmrtakerPrivateViewKey",
                             "xmrtakerSecp256K1PublicKey"},
     db |-> IF dbOk THEN db \cup {"counterparty-swap-keys"} ELSE db]

\* the results of the wallet's Transfer: accepted, failed before the transaction
\* left the wallet, failed after it was broadcast (e.g. while waiting for
\* the confirmations)
TransferResults == {"ok", "errNotSent", "errSent"}

\* lockFunds: GetBalance, then Transfer; fundsLocked only after Transfer returned nil
lockFundsOnceTransferCalled(dbv, balanceOk, tr) ==
    IF ~balanceOk
    THEN [err |-> TRUE, fundsLocked |-> fundsLocked, acts |-> acts]
    ELSE [err |-> tr # "ok",
          fundsLocked |-> TRUE,
          acts |-> acts \cup {[act |-> "Transfer", db |-> dbv,
                               nee |-> nextExpectedEvent, result |-> tr]}]
lockFunds(dbv, balanceOk, tr) ==
    IF ~balanceOk
    THEN [err |-> TRUE, fundsLocked |-> fundsLocked, acts |-> acts]
    ELSE [err |-> tr # "ok",
          fundsLocked |-> IF tr = "ok" THEN TRUE ELSE fundsLocked,
          acts |-> acts \cup {[act |-> "Transfer", db |-> dbv,
                               nee |-> nextExpectedEvent, result |-> tr]}]

\* getSecret: what the returned value is made of
getSecret == "secret"

\* what can happen inside claimFunds: the queries before the claim, our wei
\* balance, discovery of relayers and creation of the request, the claim
\* transaction, the balance query after the claim
AllClaimOutcomes ==
    [pre : BOOLEAN, balanceZero : BOOLEAN, relayersOk : BOOLEAN,
     tx : {"ok", "err"}, post : BOOLEAN]

\* the outcomes given to a handler that is not run
NoClaim == [pre |-> FALSE, balanceZero |-> FALSE, relayersOk |-> FALSE, tx |-> "err",
            post |-> FALSE]

\* claimFunds takes the relayer path iff UseRelayer or the wei balance is zero
relayerPathOnlyWhenAsked(o) == useRelayer
relayerPath(o) == useRelayer \/ o.balanceZero

\* the outcomes that differ in what claimFunds does: nothing after a failed
\* step is looked at
ClaimOutcomes ==
    {o \in AllClaimOutcomes :
        /\ ~o.pre => o = NoClaim
        /\ (o.pre /\ ~relayerPath(o)) => o.relayersOk
        /\ (relayerPath(o) /\ ~o.relayersOk) => (o.tx = "err" /\ ~o.post)
        /\ o.tx = "err" => ~o.post}

\* claimFunds / discoverRelayersAndClaim: what leaves the process, whether the
\* claim was carried out, and the error returned
claimFunds(o) ==
    LET sent == IF ~o.pre THEN {}
                ELSE IF relayerPath(o)
                     THEN IF o.relayersOk
                          THEN {[kind |-> "RelayClaimRequest",
                                 carries |-> {"contractSwap", "signature", getSecret}]}
                          ELSE {}
                     ELSE {[kind |-> "Claim", carries |-> {"contractSwap", getSecret}]}
        claimed == sent # {} /\ o.tx = "ok"
    IN [err |-> ~claimed \/ ~o.post, sent |-> sent, claimed |-> claimed]

\* what can happen inside reclaimMonero: the write of the counterparty's private
\* key, the lookup of the counterparty's swap keys, the sweep
ReclaimOutcomes ==
    {o \in [putOk : BOOLEAN, getOk : BOOLEAN, sweepOk : BOOLEAN] :
        /\ ~o.putOk => (~o.getOk /\ ~o.sweepOk)
        /\ ~o.getOk => ~o.sweepOk}

NoReclaim == [putOk |-> FALSE, getOk |-> FALSE, sweepOk |-> FALSE]

XMRTakerKeyFields == {"xmrtakerPublicSpendKey", "xmrtakerPrivateViewKey"}

\* reclaimMonero: PutCounterpartySwapPrivateKey, GetCounterpartySwapKeys when the
\* keys are not in memory, then ClaimMonero with the joint keypair
reclaimMoneroIgnoringPutError(o) ==
    LET db1 == IF o.putOk THEN db \cup {"counterparty-swap-private-key"} ELSE db
        inMemory == XMRTakerKeyFields \subseteq fields
        found == o.getOk /\ "counterparty-swap-keys" \in db1
    IN IF ~inMemory /\ ~found
       THEN [err |-> TRUE, panic |-> FALSE, db |-> db1, fields |-> fields, acts |-> acts]
       ELSE IF "privkeys" \notin fields
       THEN [err |-> TRUE, panic |-> TRUE, db |-> db1,
             fields |-> fields \cup XMRTakerKeyFields, acts |-> acts]
       ELSE [err |-> ~o.sweepOk, panic |-> FALSE, db |-> db1,
             fields |-> fields \cup XMRTakerKeyFields,
             acts |-> acts \cup {[act |-> "Sweep", db |-> db1,
                                  nee |-> nextExpectedEvent,
                                  result |-> IF o.sweepOk THEN "ok" ELSE "err"]}]
reclaimMonero(o) ==
    IF ~o.putOk
    THEN [err |-> TRUE, panic |-> FALSE, db |-> db, fields |-> fields, acts |-> acts]
    ELSE LET db1 == db \cup {"counterparty-swap-private-key"}
             inMemory == XMRTakerKeyFields \subseteq fields
             found == o.getOk /\ "counterparty-swap-keys" \in db1
         IN IF ~inMemory /\ ~found
            THEN [err |-> TRUE, panic |-> FALSE, db |-> db1, fields |-> fields,
                  acts |-> acts]
            ELSE IF "privkeys" \notin fields
            THEN [err |-> TRUE, panic |-> TRUE, db |-> db1,
                  fields |-> fields \cup XMRTakerKeyFields, acts |-> acts]
            ELSE [err |-> ~o.sweepOk, panic |-> FALSE, db |-> db1,
                  fields |-> fields \cup XMRTakerKeyFields,
                  acts |-> acts \cup {[act |-> "Sweep", db |-> db1,
                                       nee |-> nextExpectedEvent,
                                       result |-> IF o.sweepOk THEN "ok" ELSE "err"]}]

\* exit: the switch on nextExpectedEvent. wait: the ContractReady-expected
\* branch, which goes on to receive from eventCh
exitSwitch(nee, st) ==
    CASE nee = "ETHLocked" ->
            [nee |-> "None", status |-> "CompletedAbort", err |-> FALSE, wait |-> FALSE]
      [] nee = "ContractReady" ->
            [nee |-> nee, status |-> st, err |-> FALSE, wait |-> TRUE]
      [] nee = "None" ->
            [nee |-> nee, status |-> st, err |-> FALSE, wait |-> FALSE]
      [] OTHER ->
            [nee |-> "None", status |-> "CompletedAbort", err |-> TRUE, wait |-> FALSE]

\* exit, ContractReady-expected branch: the handler run for the event taken
\* from eventCh, by the event's type
exitHandlerClaimsByDefault(type) ==
    IF type = "ETHRefunded" THEN "handleEventETHRefunded" ELSE "handleEventContractReady"
exitHandlerFor(type) ==
    CASE type = "ETHRefunded" -> "handleEventETHRefunded"
      [] type = "ContractReady" -> "handleEventContractReady"
      [] OTHER -> "none"

\* what can happen inside the deferred clean-up of exit: CompleteOngoingSwap,
\* AddOffer, DeleteSwap
CleanupOutcomes ==
    {co \in [complete : BOOLEAN, add : BOOLEAN, del : BOOLEAN] :
        ~co.complete => (~co.add /\ ~co.del)}
NotRun == [complete |-> FALSE, add |-> FALSE, del |-> FALSE]

\* exit's deferred function, run with the status st and the Recovery DB dbv the
\* body of exit left
cleanup(st, dbv, co) ==
    IF ~co.complete
    THEN [ran |-> FALSE, ongoing |-> ongoing, offers |-> offers, db |-> dbv,
          deletedAt |-> deletedAt, ctxCancelled |-> ctxCancelled, done |-> done,
          crashed |-> crashed]
    ELSE [ran |-> TRUE,
          ongoing |-> FALSE,
          offers |-> IF st # "CompletedSuccess"
                     THEN (IF co.add THEN TRUE ELSE offers)
                     ELSE FALSE,
          db |-> IF co.del THEN {} ELSE dbv,
          deletedAt |-> IF co.del THEN deletedAt \cup {st} ELSE deletedAt,
          ctxCancelled |-> TRUE,
          done |-> IF done = 0 THEN 1 ELSE done,
          crashed |-> crashed \/ done > 0]

\* -------------------------------------------------- handlers' results
\* A handler's result: the error it returns, whether it panicked, and the swap
\* state, Recovery DB, contract and what left the process as it leaves them.
Unhandled ==
    [panic |-> FALSE, err |-> FALSE, nee |-> nextExpectedEvent, status |-> status,
     db |-> db, fields |-> fields, outbox |-> outbox, chain |-> chain, acts |-> acts,
     claimErr |-> claimErr]

\* a message or transaction as it is recorded in outbox: with the event being
\* handled and the next expected event at that time
Stamp(m, onEvent) ==
    [kind |-> m.kind, carries |-> m.carries, nee |-> nextExpectedEvent, onEvent |-> onEvent]

\* handleEventContractReady: claimFunds, and on success
\* clearNextExpectedEvent(CompletedSuccess)
handleEventContractReady(o, onEvent) ==
    IF "contractSwap" \notin fields
    THEN [Unhandled EXCEPT !.panic = TRUE, !.err = TRUE]
    ELSE LET c == claimFunds(o)
         IN [panic |-> FALSE,
             err |-> c.err,
             nee |-> IF c.err THEN nextExpectedEvent ELSE "None",
             status |-> IF c.err THEN status ELSE "CompletedSuccess",
             db |-> db,
             fields |-> fields,
             outbox |-> outbox \cup {Stamp(m, onEvent) : m \in c.sent},
             chain |-> IF c.claimed THEN "claimed" ELSE chain,
             acts |-> IF c.sent = {} THEN acts
                      ELSE acts \cup {[act |-> "Claim", db |-> db,
                                       nee |-> nextExpectedEvent,
                                       result |-> IF c.claimed THEN "ok" ELSE "err"]},
             claimErr |-> claimErr \/ c.err]

\* handleEventETHRefunded: reclaimMonero, and on success
\* clearNextExpectedEvent(CompletedRefund)
handleEventETHRefunded(o) ==
    LET r == reclaimMonero(o)
    IN [panic |-> r.panic,
        err |-> r.err,
        nee |-> IF r.err THEN nextExpectedEvent ELSE "None",
        status |-> IF r.err THEN status ELSE "CompletedRefund",
        db |-> r.db,
        fields |-> r.fields,
        outbox |-> outbox,
        chain |-> chain,
        acts |-> r.acts,
        claimErr |-> claimErr]

\* the claim transaction can succeed only while the contract lets us claim
ClaimPossible(o) == o.tx = "ok" => chain = "ready"

NoCleanup(dbv) == cleanup(status, dbv, NotRun)

ApplyHandler(h) ==
    /\ nextExpectedEvent' = h.nee
    /\ status' = h.status
    /\ fields' = h.fields
    /\ outbox' = h.outbox
    /\ chain' = h.chain
    /\ acts' = h.acts
    /\ claimErr' = h.claimErr

ApplyCleanup(c) ==
    /\ ongoing' = c.ongoing
    /\ offers' = c.offers
    /\ db' = c.db
    /\ deletedAt' = c.deletedAt
    /\ ctxCancelled' = c.ctxCancelled
    /\ done' = c.done
    /\ crashed' = c.crashed

\* the process panics: nothing runs any more
Panic ==
    /\ crashed' = TRUE
    /\ UNCHANGED <<call, built, claimErr, mode, useRelayer, ctor, nextExpectedEvent, status,
                   fundsLocked, fields, db, ongoing, offers, ctxCancelled, done, chain,
                   logs, eventCh, pc, cur, snd, peerMsgs, outbox, acts, deletedAt, putSeq,
                   takeSeq, inOrder, exitRet>>

\* the record of one return of exit()
ExitRecord(via, nee0, inner, h, c) ==
    [via |-> via,
     nee0 |-> nee0,
     inner |-> inner,
     signalled |-> exitHandlerFor(inner) # "none",
     err |-> h.err,
     status1 |-> h.status,
     ran |-> c.ran,
     changed |-> \/ h.status # status
                 \/ c.offers # offers
                 \/ c.ongoing # ongoing
                 \/ c.db # db
                 \/ c.done # done
                 \/ c.crashed # crashed,
     locked |-> fundsLocked,
     transferred |-> \E a \in h.acts : a.act = "Transfer"]

GoLoops == [l \in Loops |-> "idle"]
Started == \E l \in Loops : pc[l] # "off"
Room == Len(eventCh) < EventChCap

Put(type, from) ==
    /\ eventCh' = Append(eventCh, [type |-> type, from |-> from, seq |-> putSeq + 1])
    /\ putSeq' = putSeq + 1
    /\ snd' = [snd EXCEPT ![from] = "waiting"]

\* the receive from eventCh: the channel hands out its oldest event
Receive == Head(eventCh)

Take(e) ==
    /\ eventCh' = Tail(eventCh)
    /\ takeSeq' = takeSeq + 1
    /\ inOrder' = (inOrder /\ e.seq = takeSeq + 1)

\* ------------------------------------------------------- construction

\* newSwapStateFromStart: PutSwapRelayerInfo, GetHeight, HeaderByNumber, AddSwap,
\* newSwapState (which starts the goroutines), generateAndSetKeys
NewSwapStateFromStart(pre, dbOk) ==
    /\ ~crashed /\ ctor = "new" /\ mode = "start"
    /\ IF pre \in {"errEarly", "errAddSwap"}
       THEN /\ ctor' = "failed"
            /\ built' = [NotBuilt EXCEPT !.err = "err"]
            /\ UNCHANGED <<ongoing, pc, fields, db>>
       ELSE IF pre = "errNewSwapState"
       THEN /\ ctor' = "failed"
            /\ built' = [NotBuilt EXCEPT !.err = "err"]
            /\ ongoing' = TRUE
            /\ db' = IF useRelayer THEN db \cup {"relayer-info"} ELSE db
            /\ UNCHANGED <<pc, fields>>
       ELSE LET k == generateAndSetKeys(dbOk)
            IN /\ ongoing' = TRUE
               /\ pc' = GoLoops
               /\ built' = [newSwapState(ethHeaderNumber) EXCEPT
                               !.err = IF k.err THEN "err" ELSE "nil"]
               /\ fields' = k.fields
               /\ db' = IF useRelayer THEN k.db \cup {"relayer-info"} ELSE k.db
               /\ ctor' = IF k.err THEN "failed" ELSE "keys"
    /\ UNCHANGED <<call, claimErr, mode, useRelayer, nextExpectedEvent, status, fundsLocked,
                   offers, ctxCancelled, done, crashed, chain, logs, eventCh, cur, snd,
                   peerMsgs, outbox, acts, deletedAt, putSeq, takeSeq, inOrder, exitRet>>

\* HandleInitiateMessage, after newSwapStateFromStart returned: setXMRTakerKeys
\* with the keys of the peer's SendKeysMessage, then our SendKeysMessage is the
\* response
SetXMRTakerKeys(dbOk) ==
    /\ ~crashed /\ ctor = "keys"
    /\ LET k == setXMRTakerKeys(dbOk)
       IN /\ fields' = k.fields
          /\ db' = k.db
          /\ ctor' = IF k.err THEN "failed" ELSE "running"
          /\ outbox' = IF k.err THEN outbox
                       ELSE outbox \cup {Stamp(SendKeysMessage, "none")}
    /\ UNCHANGED <<call, built, claimErr, mode, useRelayer, nextExpectedEvent, status,
                   fundsLocked, ongoing, offers, ctxCancelled, done, crashed, chain, logs,
                   eventCh, pc, cur, snd, peerMsgs, acts, deletedAt, putSeq, takeSeq,
                   inOrder, exitRet>>

\* newSwapStateFromOngoing: the check of the persisted status
invalidStageUnlessLockStarted(st) == st \notin {"KeysExchanged", "XMRLocked"}
invalidStageForRecovery(st) == st # "XMRLocked"

\* newSwapStateFromOngoing, first part: the status check and newSwapState, which
\* creates the context and the log filters and starts the goroutines. Of the
\* failures of newSwapState, the one before the context is created is modelled.
NewSwapStateFromOngoing(ok) ==
    /\ ~crashed /\ ctor = "new" /\ mode = "ongoing"
    /\ IF invalidStageForRecovery(status)
       THEN /\ ctor' = "failed" /\ pc' = pc
            /\ built' = [NotBuilt EXCEPT !.err = "errInvalidStageForRecovery"]
       ELSE IF ~ok
       THEN /\ ctor' = "failed" /\ pc' = pc
            /\ built' = [NotBuilt EXCEPT !.err = "err"]
       ELSE /\ ctor' = "fields" /\ pc' = GoLoops
            /\ built' = newSwapState(ethSwapInfoStartNumber)
    /\ UNCHANGED <<call, claimErr, mode, useRelayer, nextExpectedEvent, status, fundsLocked,
                   fields, db, ongoing, offers, ctxCancelled, done, crashed, chain, logs,
                   eventCh, cur, snd, peerMsgs, outbox, acts, deletedAt, putSeq, takeSeq,
                   inOrder, exitRet>>

\* newSwapStateFromOngoing, second part: setContract, setTimeouts, the keys,
\* contractSwapID and contractSwap
OngoingSetFields(ok) ==
    /\ ~crashed /\ ctor = "fields"
    /\ IF ok
       THEN fields' = fields \cup OngoingFields /\ ctor' = "running"
       ELSE fields' = fields \cup {"contractAddr"} /\ ctor' = "failed"
    /\ built' = [built EXCEPT !.err = IF ok THEN "nil" ELSE "err"]
    /\ UNCHANGED <<call, claimErr, mode, useRelayer, nextExpectedEvent, status, fundsLocked,
                   db, ongoing, offers, ctxCancelled, done, crashed, chain, logs, eventCh,
                   pc, cur, snd, peerMsgs, outbox, acts, deletedAt, putSeq, takeSeq,
                   inOrder, exitRet>>

\* -------------------------------------------------------- environment

\* Exit: put an EventExit on eventCh, then wait on its errCh
ExitCall(i) ==
    /\ ~crashed /\ ctor = "running" /\ Room
    /\ snd[ExitCaller(i)] = "idle"
    /\ \A j \in ExitCallers : j < i => snd[ExitCaller(j)] # "idle"
    /\ Put("Exit", ExitCaller(i))
    /\ UNCHANGED <<call, built, claimErr, mode, useRelayer, ctor, nextExpectedEvent, status,
                   fundsLocked, fields, db, ongoing, offers, ctxCancelled, done, crashed,
                   chain, logs, pc, cur, peerMsgs, outbox, acts, deletedAt, takeSeq,
                   inOrder, exitRet>>

\* the peer's NotifyETHLocked message becomes an EventETHLocked
PeerNotifyETHLocked ==
    /\ ~crashed /\ ctor = "running" /\ mode = "start" /\ Room
    /\ snd[Peer] # "waiting"
    /\ peerMsgs < MaxPeerMsgs
    /\ peerMsgs' = peerMsgs + 1
    /\ Put("ETHLocked", Peer)
    /\ UNCHANGED <<call, built, claimErr, mode, useRelayer, ctor, nextExpectedEvent, status,
                   fundsLocked, fields, db, ongoing, offers, ctxCancelled, done, crashed,
                   chain, logs, pc, cur, outbox, acts, deletedAt, takeSeq, inOrder,
                   exitRet>>

\* the taker creates the swap in the contract
TakerLockETH ==
    /\ ~crashed /\ ctor = "running" /\ chain = "none"
    /\ chain' = "pending"
    /\ UNCHANGED <<call, built, claimErr, mode, useRelayer, ctor, nextExpectedEvent, status,
                   fundsLocked, fields, db, ongoing, offers, ctxCancelled, done, crashed,
                   logs, eventCh, pc, cur, snd, peerMsgs, outbox, acts, deletedAt, putSeq,
                   takeSeq, inOrder, exitRet>>

\* the taker calls setReady: the contract emits Ready
TakerSetReady ==
    /\ ~crashed /\ chain = "pending"
    /\ chain' = "ready"
    /\ logs' = logs \cup {[topic |-> "Ready", block |-> RestartNumber]}
    /\ UNCHANGED <<call, built, claimErr, mode, useRelayer, ctor, nextExpectedEvent, status,
                   fundsLocked, fields, db, ongoing, offers, ctxCancelled, done, crashed,
                   eventCh, pc, cur, snd, peerMsgs, outbox, acts, deletedAt, putSeq,
                   takeSeq, inOrder, exitRet>>

\* the taker refunds (before t0 or after t1): the contract emits Refunded
TakerRefund ==
    /\ ~crashed /\ chain \in {"pending", "ready"}
    /\ chain' = "refunded"
    /\ logs' = logs \cup {[topic |-> "Refunded", block |-> RestartNumber]}
    /\ UNCHANGED <<call, built, claimErr, mode, useRelayer, ctor, nextExpectedEvent, status,
                   fundsLocked, fields, db, ongoing, offers, ctxCancelled, done, crashed,
                   eventCh, pc, cur, snd, peerMsgs, outbox, acts, deletedAt, putSeq,
                   takeSeq, inOrder, exitRet>>

\* the logs the log filters of the swap find: those of their topic in the
\* blocks from ethStartNumber on
Filtered == {g \in logs : g.topic \in built.watchers /\ g.block >= built.ethStartNumber}

\* runContractEventWatcher: a log of the watchers becomes an event, in block
\* order; the watcher then waits on the event's errCh
WatcherDeliver ==
    /\ ~crashed /\ Started /\ ~ctxCancelled /\ Room
    /\ snd[Watcher] # "waiting"
    /\ Filtered # {}
    /\ LET log == IF \E g \in Filtered : g.topic = "Ready"
                  THEN CHOOSE g \in Filtered : g.topic = "Ready"
                  ELSE CHOOSE g \in Filtered : TRUE
       IN /\ logs' = logs \ {log}
          /\ Put(IF log.topic = "Ready" THEN "ContractReady" ELSE "ETHRefunded", Watcher)
    /\ UNCHANGED <<call, built, claimErr, mode, useRelayer, ctor, nextExpectedEvent, status,
                   fundsLocked, fields, db, ongoing, offers, ctxCancelled, done, crashed,
                   chain, pc, cur, peerMsgs, outbox, acts, deletedAt, takeSeq, inOrder,
                   exitRet>>

\* the backend's context, parent of the per-swap context, is cancelled
BackendShutdown ==
    /\ ~crashed /\ Started /\ ~ctxCancelled
    /\ ctxCancelled' = TRUE
    /\ UNCHANGED <<call, built, claimErr, mode, useRelayer, ctor, nextExpectedEvent, status,
                   fundsLocked, fields, db, ongoing, offers, done, crashed, chain, logs,
                   eventCh, pc, cur, snd, peerMsgs, outbox, acts, deletedAt, putSeq,
                   takeSeq, inOrder, exitRet>>

\* ---------------------------------------------------------- event loop

Finish(l) ==
    /\ pc' = [pc EXCEPT ![l] = "idle"]
    /\ cur' = [cur EXCEPT ![l] = NoEvent]

\* a sender whose errCh was answered: a caller of Exit has returned, the peer's
\* stream and the watcher go on to their next message or log
Answered(s) == IF s[1] = "exit" THEN "returned" ELSE "idle"

Reply(s, r) == snd' = [snd EXCEPT ![s] = Answered(s)]

\* runHandleEvents: take the next event from eventCh, unless the context is done
Dequeue(l) ==
    /\ ~crashed /\ pc[l] = "idle" /\ ~ctxCancelled
    /\ eventCh # <<>>
    /\ cur' = [cur EXCEPT ![l] = Receive]
    /\ Take(Receive)
    /\ pc' = [pc EXCEPT ![l] = "handling"]
    /\ UNCHANGED <<call, built, claimErr, mode, useRelayer, ctor, nextExpectedEvent, status,
                   fundsLocked, fields, db, ongoing, offers, ctxCancelled, done, crashed,
                   chain, logs, snd, peerMsgs, outbox, acts, deletedAt, putSeq, exitRet>>

\* runHandleEvents returns once the context is done
LoopReturn(l) ==
    /\ ~crashed /\ pc[l] = "idle" /\ ctxCancelled
    /\ pc' = [pc EXCEPT ![l] = "stopped"]
    /\ UNCHANGED <<call, built, claimErr, mode, useRelayer, ctor, nextExpectedEvent, status,
                   fundsLocked, fields, db, ongoing, offers, ctxCancelled, done, crashed,
                   chain, logs, eventCh, cur, snd, peerMsgs, outbox, acts, deletedAt,
                   putSeq, takeSeq, inOrder, exitRet>>

ContractFields == {"contract", "contractAddr", "contractSwap", "contractSwapID", "timeouts"}

\* handleEvent, EventETHLocked: verify the peer's NotifyETHLocked against the
\* contract, checkpoint the contract swap info, lockFunds, and on success expect
\* ContractReady next (status XMRLocked)
HandleETHLocked(l, verifyOk, dbOk, balanceOk, tr) ==
    /\ ~crashed /\ pc[l] = "handling" /\ cur[l].type = "ETHLocked"
    /\ verifyOk => chain = "pending"
    /\ IF nextExpectedEvent # "ETHLocked" \/ ~verifyOk
       THEN /\ Reply(cur[l].from, "err")
            /\ UNCHANGED <<nextExpectedEvent, status, fundsLocked, fields, db, acts>>
       ELSE IF ~dbOk
       THEN /\ Reply(cur[l].from, "err")
            /\ fields' = fields \cup ContractFields
            /\ UNCHANGED <<nextExpectedEvent, status, fundsLocked, db, acts>>
       ELSE LET db1 == db \cup {"eth-swap-info"}
                lk == lockFunds(db1, balanceOk, tr)
            IN /\ fields' = fields \cup ContractFields
               /\ db' = db1
               /\ fundsLocked' = lk.fundsLocked
               /\ acts' = lk.acts
               /\ nextExpectedEvent' = IF lk.err THEN nextExpectedEvent ELSE "ContractReady"
               /\ status' = IF lk.err THEN status ELSE "XMRLocked"
               /\ Reply(cur[l].from, IF lk.err THEN "err" ELSE "nil")
    /\ Finish(l)
    /\ UNCHANGED <<call, built, claimErr, mode, useRelayer, ctor, ongoing, offers,
                   ctxCancelled, done, crashed, chain, logs, eventCh, peerMsgs, outbox,
                   deletedAt, putSeq, takeSeq, inOrder, exitRet>>

\* what a handler of the event loop does with its result h: panic; or return
\* the error to the sender; or call exit(), whose switch finds
\* nextExpectedEvent None and whose deferred clean-up runs
FinishHandler(l, h, co) ==
    IF h.panic
    THEN Panic
    ELSE /\ ApplyHandler(h)
         /\ fundsLocked' = fundsLocked
         /\ IF h.err
            THEN /\ ApplyCleanup(NoCleanup(h.db))
                 /\ exitRet' = exitRet
                 /\ Reply(cur[l].from, "err")
            ELSE LET sw == exitSwitch(h.nee, h.status)
                     c == cleanup(sw.status, h.db, co)
                 IN /\ ApplyCleanup(c)
                    /\ exitRet' = ExitRecord("handler", h.nee, "none", h, c)
                    /\ Reply(cur[l].from, "nil")
         /\ Finish(l)
         /\ UNCHANGED <<call, built, mode, useRelayer, ctor, logs, eventCh, peerMsgs,
                        putSeq, takeSeq, inOrder>>

\* an event that is not the expected one is answered with an error
Reject(l) ==
    /\ Reply(cur[l].from, "err")
    /\ Finish(l)
    /\ UNCHANGED <<call, built, claimErr, mode, useRelayer, ctor, nextExpectedEvent, status,
                   fundsLocked, fields, db, ongoing, offers, ctxCancelled, done, crashed,
                   chain, logs, eventCh, peerMsgs, outbox, acts, deletedAt, putSeq, takeSeq,
                   inOrder, exitRet>>

\* handleEvent, EventContractReady
HandleContractReady(l, o, co) ==
    /\ ~crashed /\ pc[l] = "handling" /\ cur[l].type = "ContractReady"
    /\ ClaimPossible(o)
    /\ IF nextExpectedEvent # "ContractReady"
       THEN Reject(l)
       ELSE FinishHandler(l, handleEventContractReady(o, cur[l].type), co)

\* handleEvent, EventETHRefunded
HandleETHRefunded(l, ro, co) ==
    /\ ~crashed /\ pc[l] = "handling" /\ cur[l].type = "ETHRefunded"
    /\ IF nextExpectedEvent # "ContractReady"
       THEN Reject(l)
       ELSE FinishHandler(l, handleEventETHRefunded(ro), co)

\* handleEvent, EventExit: exit(). In the ContractReady-expected branch exit
\* goes on to receive from eventCh; otherwise the switch and the deferred
\* clean-up run and the caller of Exit gets exit's error
HandleExit(l, co) ==
    /\ ~crashed /\ pc[l] = "handling" /\ cur[l].type = "Exit"
    /\ LET sw == exitSwitch(nextExpectedEvent, status)
       IN IF sw.wait
          THEN /\ pc' = [pc EXCEPT ![l] = "exitWait"]
               /\ UNCHANGED <<nextExpectedEvent, status, fields, outbox, chain, acts,
                              ongoing, offers, db, deletedAt, ctxCancelled, done,
                              crashed, exitRet, snd, cur, claimErr>>
          ELSE LET h == [Unhandled EXCEPT !.nee = sw.nee, !.status = sw.status,
                                          !.err = sw.err]
                   c == cleanup(sw.status, db, co)
               IN /\ ApplyHandler(h)
                  /\ ApplyCleanup(c)
                  /\ exitRet' = ExitRecord("Exit", nextExpectedEvent, "none", h, c)
                  /\ Reply(cur[l].from, IF sw.err THEN "err" ELSE "nil")
                  /\ Finish(l)
    /\ UNCHANGED <<call, built, mode, useRelayer, ctor, fundsLocked, logs, eventCh,
                   peerMsgs, putSeq, takeSeq, inOrder>>

\* exit, ContractReady-expected branch: event := <-s.eventCh, the type switch
\* with its deferred close(e.errCh), then the deferred clean-up
ExitReceive(l, o, ro, co) ==
    /\ ~crashed /\ pc[l] = "exitWait"
    /\ eventCh # <<>>
    /\ exitHandlerFor(Receive.type) # "handleEventContractReady" => o = NoClaim
    /\ exitHandlerFor(Receive.type) # "handleEventETHRefunded" => ro = NoReclaim
    /\ LET e == Receive
           hn == exitHandlerFor(e.type)
           h == CASE hn = "handleEventContractReady" -> handleEventContractReady(o, e.type)
                  [] hn = "handleEventETHRefunded" -> handleEventETHRefunded(ro)
                  [] OTHER -> Unhandled
       IN /\ hn = "handleEventContractReady" => ClaimPossible(o)
          /\ IF h.panic
             THEN Panic
             ELSE LET c == cleanup(h.status, h.db, co)
                  IN /\ ApplyHandler(h)
                     /\ ApplyCleanup(c)
                     /\ Take(e)
                     /\ exitRet' = ExitRecord("Exit", nextExpectedEvent, e.type, h, c)
                     /\ snd' = [snd EXCEPT
                                  ![e.from] = IF hn # "none" THEN Answered(e.from) ELSE @,
                                  ![cur[l].from] = Answered(cur[l].from)]
                     /\ Finish(l)
                     /\ UNCHANGED <<call, built, mode, useRelayer, ctor, fundsLocked, logs,
                                    peerMsgs, putSeq>>

\* ------------------------------------------------------- specification

Next ==
    \/ \E pre \in {"errEarly", "errAddSwap", "errNewSwapState", "ok"}, dbOk \in BOOLEAN :
          NewSwapStateFromStart(pre, dbOk)
    \/ \E dbOk \in BOOLEAN : SetXMRTakerKeys(dbOk)
    \/ \E ok \in BOOLEAN : NewSwapStateFromOngoing(ok)
    \/ \E ok \in BOOLEAN : OngoingSetFields(ok)
    \/ \E i \in ExitCallers : ExitCall(i)
    \/ PeerNotifyETHLocked
    \/ TakerLockETH
    \/ TakerSetReady
    \/ TakerRefund
    \/ WatcherDeliver
    \/ BackendShutdown
    \/ \E l \in Loops : Dequeue(l)
    \/ \E l \in Loops : LoopReturn(l)
    \/ \E l \in Loops, verifyOk \in BOOLEAN, dbOk \in BOOLEAN, balanceOk \in BOOLEAN,
          tr \in TransferResults : HandleETHLocked(l, verifyOk, dbOk, balanceOk, tr)
    \/ \E l \in Loops, o \in ClaimOutcomes, co \in CleanupOutcomes :
          HandleContractReady(l, o, co)
    \/ \E l \in Loops, ro \in ReclaimOutcomes, co \in CleanupOutcomes :
          HandleETHRefunded(l, ro, co)
    \/ \E l \in Loops, co \in CleanupOutcomes : HandleExit(l, co)
    \/ \E l \in Loops, o \in ClaimOutcomes, ro \in ReclaimOutcomes,
          co \in CleanupOutcomes : ExitReceive(l, o, ro, co)

Spec == Init /\ [][Next]_vars

\* the goroutine of the event loop runs whenever it can: it takes an event that
\* is on the channel and finishes the handler it started; the watcher delivers
\* the logs it has
LoopStep ==
    \/ \E l \in Loops : Dequeue(l)
    \/ \E l \in Loops : LoopReturn(l)
    \/ \E l \in Loops, verifyOk \in BOOLEAN, dbOk \in BOOLEAN, balanceOk \in BOOLEAN,
          tr \in TransferResults : HandleETHLocked(l, verifyOk, dbOk, balanceOk, tr)
    \/ \E l \in Loops, o \in ClaimOutcomes, co \in CleanupOutcomes :
          HandleContractReady(l, o, co)
    \/ \E l \in Loops, ro \in ReclaimOutcomes, co \in CleanupOutcomes :
          HandleETHRefunded(l, ro, co)
    \/ \E l \in Loops, co \in CleanupOutcomes : HandleExit(l, co)
    \/ \E l \in Loops, o \in ClaimOutcomes, ro \in ReclaimOutcomes,
          co \in CleanupOutcomes : ExitReceive(l, o, ro, co)

FairSpec == Spec /\ WF_vars(LoopStep) /\ WF_vars(WatcherDeliver)

\* ------------------------------------- functions examined on their own
\* A call of one function: its inputs, its local variables, its position and
\* what it returned are the fields of call; the swap is left as constructed.

\* the most logs a receipt has, and the most topics a log has
MaxLogs == 2
MaxTopics == 4
\* the most relayers DiscoverRelayers finds
MaxRelayers == 2
\* the largest swap value and relayer fee, in wei
MaxWei == 2

\* waitForClaimReceipt: time between transaction polls, in seconds
checkInterval == 1
\* waitForClaimReceipt: max wait for the tx to be included in a block, in seconds
maxWait == 60
\* waitForClaimReceipt: maxNotFound
maxNotFound == 10

Addresses == {"contractAddr", "otherAddr"}
TopicWords == {"claimedTopic", "contractSwapID", "secret", "other"}
AllLogs ==
    [address : Addresses,
     topics : UNION {[1..n -> TopicWords] : n \in 0..MaxTopics}]

\* the Claimed log of our swap
ClaimedLog ==
    [address |-> "contractAddr", topics |-> <<"claimedTopic", "contractSwapID", "secret">>]

\* checkClaimedLog: the check of the number of topics
tooFewTopics(n) == n < 3
wrongTopicLength(n) == n # 3

\* checkClaimedLog(log, contractAddr, contractSwapID, secret)
checkClaimedLog(log) ==
    IF log.address # "contractAddr" THEN "errClaimedLogInvalidContractAddr"
    ELSE IF wrongTopicLength(Len(log.topics)) THEN "errClaimedLogWrongTopicLength"
    ELSE IF log.topics[1] # "claimedTopic" THEN "errClaimedLogWrongEvent"
    ELSE IF log.topics[2] # "contractSwapID" THEN "errClaimedLogWrongSwapID"
    ELSE IF log.topics[3] # "secret" THEN "errClaimedLogWrongSecret"
    ELSE "nil"

\* the logs the receipts of the relayed transaction are made of
LogSamples ==
    {ClaimedLog,
     [ClaimedLog EXCEPT !.address = "otherAddr"],
     [ClaimedLog EXCEPT !.topics = <<"claimedTopic", "contractSwapID">>],
     [ClaimedLog EXCEPT !.topics = <<"claimedTopic", "contractSwapID", "other">>]}

\* TransactionReceipt returned an error
NoReceipt == [status |-> "none", logs |-> <<>>]

Receipts ==
    [status : {"Successful", "Failed"},
     logs : UNION {[1..n -> LogSamples] : n \in 0..MaxLogs}]

\* waitForClaimReceipt: the log of the receipt that is checked, receipt.Logs[0]
receiptLogLast(ls) == ls[Len(ls)]
receiptLog(ls) == ls[1]

\* waitForClaimReceipt, after the loop: TransactionReceipt, the status, the
\* number of logs, checkClaimedLog
checkReceipt(rc) ==
    IF rc = NoReceipt THEN "err"
    ELSE IF rc.status # "Successful" THEN "errClaimFailed"
    ELSE IF Len(rc.logs) = 0 THEN "errNoLogs"
    ELSE checkClaimedLog(receiptLog(rc.logs))

\* the results of TransactionByHash: found and pending, found and mined,
\* ethereum.NotFound, another error
TxByHashResults == {"pending", "mined", "NotFound", "err"}

\* waitForClaimReceipt: a NotFound error is passed over when
\* notFoundCount >= maxNotFound
notFoundTolerated(notFoundCount) == notFoundCount >= maxNotFound

\* waitForClaimReceipt: one pass of the loop after the sleep, for the result r
\* of TransactionByHash after elapsed seconds
pollStep(elapsed, notFoundCount, r) ==
    IF r \in {"NotFound", "err"}
    THEN IF r = "NotFound" /\ notFoundTolerated(notFoundCount)
         THEN [pc |-> "sleep", ret |-> "none", notFoundCount |-> notFoundCount + 1]
         ELSE [pc |-> "returned", ret |-> r, notFoundCount |-> notFoundCount]
    ELSE IF elapsed > maxWait
    THEN [pc |-> "returned", ret |-> "errRelayedTransactionTimeout",
          notFoundCount |-> notFoundCount]
    ELSE IF r = "mined"
    THEN [pc |-> "receipt", ret |-> "none", notFoundCount |-> notFoundCount]
    ELSE [pc |-> "sleep", ret |-> "none", notFoundCount |-> notFoundCount]

\* waitForClaimReceipt: time.Since(start) after one more SleepWithContext
sinceStartUnchanged(elapsed) == elapsed
sinceStartAfterSleep(elapsed) == elapsed + checkInterval

\* a call of checkClaimedLog with the log as input
CheckClaimedLogCalls ==
    [fn : {"checkClaimedLog"}, pc : {"called"}, log : AllLogs, ret : {"none"}]

\* a call of waitForClaimReceipt: start := time.Now(), notFoundCount = 0.
\* nfSeen counts the NotFound results TransactionByHash gave.
WaitForClaimReceiptCall ==
    [fn |-> "waitForClaimReceipt", pc |-> "sleep", elapsed |-> 0, notFoundCount |-> 0,
     nfSeen |-> 0, ctxDone |-> FALSE, mined |-> FALSE, receipt |-> NoReceipt,
     ret |-> "none"]

CheckClaimedLog ==
    /\ call.fn = "checkClaimedLog" /\ call.pc = "called"
    /\ call' = [call EXCEPT !.pc = "returned", !.ret = checkClaimedLog(call.log)]
    /\ UNCHANGED swapVars

\* the context given to waitForClaimReceipt is cancelled
WaitCtxDone ==
    /\ call.fn = "waitForClaimReceipt" /\ call.pc # "returned" /\ ~call.ctxDone
    /\ call' = [call EXCEPT !.ctxDone = TRUE]
    /\ UNCHANGED swapVars

\* waitForClaimReceipt: common.SleepWithContext(ctx, checkInterval)
WaitSleep ==
    /\ call.fn = "waitForClaimReceipt" /\ call.pc = "sleep"
    /\ call' = IF call.ctxDone
               THEN [call EXCEPT !.pc = "returned", !.ret = "ctxErr"]
               ELSE [call EXCEPT !.pc = "poll", !.elapsed = sinceStartAfterSleep(@)]
    /\ UNCHANGED swapVars

\* waitForClaimReceipt: TransactionByHash and the rest of the loop's body
WaitPoll(r) ==
    /\ call.fn = "waitForClaimReceipt" /\ call.pc = "poll"
    /\ LET p == pollStep(call.elapsed, call.notFoundCount, r)
       IN call' = [call EXCEPT !.pc = p.pc, !.ret = p.ret,
                               !.notFoundCount = p.notFoundCount,
                               !.nfSeen = IF r = "NotFound" THEN @ + 1 ELSE @,
                               !.mined = (r = "mined")]
    /\ UNCHANGED swapVars

\* waitForClaimReceipt, after the loop
WaitReceipt(rc) ==
    /\ call.fn = "waitForClaimReceipt" /\ call.pc = "receipt"
    /\ call' = [call EXCEPT !.pc = "returned", !.receipt = rc, !.ret = checkReceipt(rc)]
    /\ UNCHANGED swapVars

\* the peers DiscoverRelayers can return, and the lists it returns: any of them,
\* in any order
Relayers == 1..MaxRelayers
RelayerLists ==
    {rs \in UNION {[1..n -> Relayers] : n \in 0..MaxRelayers} :
        \A i, j \in DOMAIN rs : i # j => rs[i] # rs[j]}

\* the hash in the response of a relayer
TxHash(relayer) == <<"relayer", relayer>>
\* the hash of the claim sent through the tx sender, and the empty hash
SenderTxHash == <<"sender", 0>>
NoHash == <<"none", 0>>

\* what a relayer's attempt ends with: SubmitClaimToRelayer failed,
\* waitForClaimReceipt failed, or the receipt validated
RelayerResults == {"submitErr", "receiptErr", "ok"}

\* discoverRelayersAndClaim, the body of the loop over the relayers: continue
\* after a failure, return the relayer's hash after a validated receipt
relayLoopTrustsSubmission(result) == IF result = "submitErr" THEN "continue" ELSE "return"
relayLoop(result) == IF result = "ok" THEN "return" ELSE "continue"

\* a call of claimFunds. contacted: the relayers the request was submitted to,
\* each with the request and the result; direct: the claims submitted through
\* the tx sender; dRet, dHash: what discoverRelayersAndClaim returned
ClaimFundsCall ==
    [fn |-> "claimFunds", pc |-> "start", balanceZero |-> FALSE, path |-> "none",
     relayers |-> <<>>, req |-> 0, next |-> 1, contacted |-> <<>>, direct |-> 0,
     dRet |-> "none", dHash |-> NoHash, ret |-> "none", hash |-> NoHash]

\* claimFunds: ERC20Info, Balance, ERC20Balance, then the choice of the path
ClaimFundsStart(pre, balanceZero) ==
    /\ call.fn = "claimFunds" /\ call.pc = "start"
    /\ call' = IF ~pre
               THEN [call EXCEPT !.pc = "returned", !.ret = "errBalance"]
               ELSE IF relayerPath([balanceZero |-> balanceZero])
               THEN [call EXCEPT !.pc = "discover", !.path = "relayer",
                                 !.balanceZero = balanceZero]
               ELSE [call EXCEPT !.pc = "direct", !.path = "direct",
                                 !.balanceZero = balanceZero]
    /\ UNCHANGED swapVars

\* claimFunds: s.sender.Claim(s.contractSwap, sc)
ClaimFundsDirect(ok) ==
    /\ call.fn = "claimFunds" /\ call.pc = "direct"
    /\ call' = IF ok
               THEN [call EXCEPT !.pc = "post", !.direct = @ + 1, !.hash = SenderTxHash]
               ELSE [call EXCEPT !.pc = "returned", !.direct = @ + 1, !.ret = "errClaim"]
    /\ UNCHANGED swapVars

\* discoverRelayersAndClaim up to the loop: DiscoverRelayers, TrustedForwarder,
\* getSecret, CreateRelayClaimRequest (the request is created once); an error
\* is also claimFunds' error
DiscoverRelayers(ok, rs) ==
    /\ call.fn = "claimFunds" /\ call.pc = "discover"
    /\ ~ok => rs = <<>>
    /\ call' = IF ~ok
               THEN [call EXCEPT !.pc = "returned", !.dRet = "errDiscover",
                                 !.ret = "errDiscover"]
               ELSE IF Len(rs) = 0
               THEN [call EXCEPT !.pc = "returned", !.dRet = "errNoRelayers",
                                 !.ret = "errNoRelayers"]
               ELSE [call EXCEPT !.pc = "submit", !.relayers = rs, !.req = 1]
    /\ UNCHANGED swapVars

\* discoverRelayersAndClaim, one pass of the loop: SubmitClaimToRelayer and
\* waitForClaimReceipt for the next relayer
SubmitClaimToRelayer(result) ==
    /\ call.fn = "claimFunds" /\ call.pc = "submit"
    /\ LET relayer == call.relayers[call.next]
           tried == Append(call.contacted,
                           [relayer |-> relayer, req |-> call.req, result |-> result])
       IN call' = IF relayLoop(result) = "return"
                  THEN [call EXCEPT !.pc = "post", !.contacted = tried,
                                    !.dRet = "nil", !.dHash = TxHash(relayer),
                                    !.hash = TxHash(relayer)]
                  ELSE IF call.next = Len(call.relayers)
                  THEN [call EXCEPT !.pc = "returned", !.contacted = tried,
                                    !.dRet = "errNoRelayerSucceeded",
                                    !.ret = "errNoRelayerSucceeded"]
                  ELSE [call EXCEPT !.contacted = tried, !.next = @ + 1]
    /\ UNCHANGED swapVars

\* claimFunds: the balance query after the claim
ClaimFundsPost(ok) ==
    /\ call.fn = "claimFunds" /\ call.pc = "post"
    /\ call' = IF ok
               THEN [call EXCEPT !.pc = "returned", !.ret = "nil"]
               ELSE [call EXCEPT !.pc = "returned", !.ret = "errBalance", !.hash = NoHash]
    /\ UNCHANGED swapVars

\* validateClaimValues: The relayer fee must be strictly less than the swap value
feeAboveValue(feeWei, value) == feeWei > value
feeNotBelowValue(feeWei, value) == feeWei >= value

\* validateClaimValues: the deployed code when the SwapFactory is not ours, the
\* asset, the value
validateClaimValues(c) ==
    IF ~c.sameAddr /\ ~c.codeOk THEN "errContractCode"
    ELSE IF c.asset # "ETH" THEN "errUnsupportedAsset"
    ELSE IF feeNotBelowValue(c.feeWei, c.value) THEN "errValueTooLow"
    ELSE "nil"

\* validateClaimSignature: NewSwapFactory, TrustedForwarder, the forwarder and
\* its domain separator, GetNonce, createForwarderRequest, then Verify
validateClaimSignature(rpcOk, sigOk) ==
    IF ~rpcOk THEN [ret |-> "err", verified |-> FALSE]
    ELSE [ret |-> IF sigOk THEN "nil" ELSE "errVerifySignature", verified |-> TRUE]

\* the calls of validateClaimRequest: whether the request's SwapFactory address
\* is ours, whether the code deployed there is accepted, the asset, the swap's
\* value and FeeWei
ValidateClaimRequestCalls ==
    [fn : {"validateClaimRequest"}, pc : {"values"}, sameAddr : BOOLEAN,
     codeOk : BOOLEAN, asset : {"ETH", "ERC20"}, value : 0..MaxWei, feeWei : 0..MaxWei,
     sigOk : {FALSE}, verified : {FALSE}, ret : {"none"}]

ValidateClaimValues ==
    /\ call.fn = "validateClaimRequest" /\ call.pc = "values"
    /\ LET e == validateClaimValues(call)
       IN call' = IF e = "nil"
                  THEN [call EXCEPT !.pc = "signature"]
                  ELSE [call EXCEPT !.pc = "returned", !.ret = e]
    /\ UNCHANGED swapVars

ValidateClaimSignature(rpcOk, sigOk) ==
    /\ call.fn = "validateClaimRequest" /\ call.pc = "signature"
    /\ LET v == validateClaimSignature(rpcOk, sigOk)
       IN call' = [call EXCEPT !.pc = "returned", !.ret = v.ret,
                               !.verified = v.verified, !.sigOk = sigOk]
    /\ UNCHANGED swapVars

\* ------------------------- the signed forward request of a relayed claim
\* the forwarder's nonce of an address goes up to this
MaxNonce == 1

EthKeys == {"claimerKey", "otherKey"}
EthAddrs == {"claimer", "other"}
\* ethcrypto.PubkeyToAddress
PubkeyToAddress(key) == IF key = "claimerKey" THEN "claimer" ELSE "other"

\* contracts.SwapFactorySwap: the claimer and the rest of the swap
ContractSwaps == [claimer : EthAddrs, rest : {"swapA", "swapB"}]
Secrets == {"secret", "otherSecret"}
SwapFactories == {"ourFactory", "otherFactory"}
Forwarders == {"forwarderA", "forwarderB"}
\* SwapFactory.TrustedForwarder(): each deployed factory names one forwarder
TrustedForwarder(factory) == IF factory = "ourFactory" THEN "forwarderA" ELSE "forwarderB"

\* getClaimRelayerTxCalldata: SwapFactoryParsedABI.Pack("claimRelayer", ...)
getClaimRelayerTxCalldata(feeWei, swap, secret) == <<"claimRelayer", swap, secret, feeWei>>

\* createForwarderRequest; FeeWei and relayedClaimGas are package values
createForwarderRequestWithoutSecret(nonce, swapFactoryAddress, swap, secret) ==
    [from |-> swap.claimer, to |-> swapFactoryAddress, value |-> 0,
     gas |-> "relayedClaimGas", nonce |-> nonce,
     data |-> getClaimRelayerTxCalldata("FeeWei", swap, "secret"), validUntilTime |-> 0]
createForwarderRequest(nonce, swapFactoryAddress, swap, secret) ==
    [from |-> swap.claimer, to |-> swapFactoryAddress, value |-> 0,
     gas |-> "relayedClaimGas", nonce |-> nonce,
     data |-> getClaimRelayerTxCalldata("FeeWei", swap, secret), validUntilTime |-> 0]

\* getForwarderAndDomainSeparator: GetEIP712DomainSeparator(name, version,
\* chainID, forwarderAddress)
domainSeparator(forwarderAddress) ==
    <<"EIP712Domain", "DefaultName", "DefaultVersion", "chainID", forwarderAddress>>

\* GetForwardRequestDigestToSign: the hash of the request under the domain
GetForwardRequestDigestToSign(forwarderReq, separator) == <<forwarderReq, separator>>

\* Key.Sign: a signature is bound to the key and to the digest
Sign(key, digest) == [signer |-> PubkeyToAddress(key), digest |-> digest]

\* Forwarder.Verify: the request's nonce is the forwarder's nonce of req.from
\* and the signature over the request's digest recovers to req.from
Verify(forwarderNonce, forwarderReq, separator, signature) ==
    /\ forwarderNonce = forwarderReq.nonce
    /\ signature.digest = GetForwardRequestDigestToSign(forwarderReq, separator)
    /\ signature.signer = forwarderReq.from

\* the signatures a request can carry: any key's over any forward request
SignatureSamples ==
    {Sign(k, GetForwardRequestDigestToSign(createForwarderRequest(n, f, sw, sec),
                                           domainSeparator(fw))) :
        k \in EthKeys, n \in 0..MaxNonce, f \in SwapFactories, sw \in ContractSwaps,
        sec \in Secrets, fw \in Forwarders}

NoRequest == [SwapFactoryAddress |-> "none", Swap |-> "none", Secret |-> "none",
              Signature |-> "none"]

\* the calls of createForwarderSignature, followed by validateClaimSignature at
\* the relayer the request is sent to
RelayClaimCalls ==
    [fn : {"relayClaim"}, pc : {"sign"}, claimerEthKey : EthKeys,
     swapFactoryAddress : SwapFactories, forwarderAddress : Forwarders,
     swap : ContractSwaps, secret : Secrets,
     nonces : {[fw \in Forwarders |-> [a \in EthAddrs |-> n]] : n \in 0..(MaxNonce - 1)},
     signed : {FALSE}, signedNonce : {0}, sent : {NoRequest}, req : {NoRequest},
     changed : {"none"},
     fwdReq : {"none"}, verified : {FALSE}, ret : {"none"}]

\* createForwarderSignature and the RelayClaimRequest made of its result
CreateForwarderSignature(rpcOk) ==
    /\ call.fn = "relayClaim" /\ call.pc = "sign"
    /\ IF call.swap.claimer # PubkeyToAddress(call.claimerEthKey)
       THEN call' = [call EXCEPT !.pc = "returned", !.ret = "errClaimerMismatch"]
       ELSE IF ~rpcOk
       THEN call' = [call EXCEPT !.pc = "returned", !.ret = "err"]
       ELSE LET nonce == call.nonces[call.forwarderAddress][call.swap.claimer]
                forwarderReq == createForwarderRequest(nonce, call.swapFactoryAddress,
                                                       call.swap, call.secret)
                digest == GetForwardRequestDigestToSign(
                              forwarderReq, domainSeparator(call.forwarderAddress))
                request == [SwapFactoryAddress |-> call.swapFactoryAddress,
                            Swap |-> call.swap, Secret |-> call.secret,
                            Signature |-> Sign(call.claimerEthKey, digest)]
            IN call' = [call EXCEPT !.pc = "sent", !.signed = TRUE, !.signedNonce = nonce,
                                    !.sent = request, !.req = request]
    /\ UNCHANGED swapVars

\* between the signing and the validation one thing changes: what reaches the
\* relayer differs from what was signed in one field,
RequestChanged(field, v) ==
    /\ call.fn = "relayClaim" /\ call.pc = "sent" /\ call.changed = "none"
    /\ \/ field = "secret" /\ v \in Secrets /\ v # call.req.Secret
          /\ call' = [call EXCEPT !.req.Secret = v, !.changed = field]
       \/ field = "swap" /\ v \in ContractSwaps /\ v # call.req.Swap
          /\ call' = [call EXCEPT !.req.Swap = v, !.changed = field]
       \/ field = "swapFactoryAddress" /\ v \in SwapFactories
          /\ v # call.req.SwapFactoryAddress
          /\ call' = [call EXCEPT !.req.SwapFactoryAddress = v, !.changed = field]
       \/ field = "signature" /\ v \in SignatureSamples /\ v # call.req.Signature
          /\ call' = [call EXCEPT !.req.Signature = v, !.changed = field]
    /\ UNCHANGED swapVars

\* or a forwarder has executed another request of an address meanwhile: its
\* nonce advances
NonceAdvanced(fw, a) ==
    /\ call.fn = "relayClaim" /\ call.pc = "sent" /\ call.changed = "none"
    /\ call.nonces[fw][a] < MaxNonce
    /\ call' = [call EXCEPT !.nonces[fw][a] = @ + 1, !.changed = "nonce"]
    /\ UNCHANGED swapVars

\* validateClaimSignature on the request received
ValidateSignedClaim(rpcOk) ==
    /\ call.fn = "relayClaim" /\ call.pc = "sent"
    /\ LET forwarderAddr == TrustedForwarder(call.req.SwapFactoryAddress)
           nonce == call.nonces[forwarderAddr][call.req.Swap.claimer]
           forwarderRequest == createForwarderRequest(nonce, call.req.SwapFactoryAddress,
                                                      call.req.Swap, call.req.Secret)
           v == validateClaimSignature(
                    rpcOk, Verify(nonce, forwarderRequest,
                                  domainSeparator(forwarderAddr), call.req.Signature))
       IN call' = [call EXCEPT !.pc = "returned", !.ret = v.ret,
                               !.verified = v.verified,
                               !.fwdReq = IF rpcOk THEN forwarderRequest ELSE "none"]
    /\ UNCHANGED swapVars

\* ------------------------------------------------- the p2p message codec
\* Identifiers for our p2p message types
Unknown == 0
QueryResponseType == 1
RelayClaimRequestType == 2
RelayClaimResponseType == 3
SendKeysType == 4
NotifyETHLockedType == 5

\* the first byte of a buffer is drawn from 0..MaxTypeByte
MaxTypeByte == 6
\* a buffer of raw bytes has up to this length
MaxBufLen == 3
\* a field holds its zero value, 0, or one of the values 1..MaxFieldValue
MaxFieldValue == 1

\* the JSON names of a message's fields, in the order of the struct
jsonFields(t) ==
    IF t = QueryResponseType THEN <<"offers">>
    ELSE IF t = RelayClaimRequestType
    THEN <<"swapFactoryAddress", "swap", "secret", "signature">>
    ELSE IF t = RelayClaimResponseType THEN <<"transactionHash">>
    ELSE IF t = SendKeysType
    THEN <<"offerID", "providedAmount", "publicSpendKey", "privateViewKey",
           "dleqProof", "secp256k1PublicKey", "ethAddress">>
    ELSE <<"address", "txHash", "contractSwapID", "contractSwap">>

Range(seq) == {seq[i] : i \in DOMAIN seq}

\* the fields tagged validate:"required"; the offers of a QueryResponse are
\* dived into, the slice itself may be empty
requiredFields(t) ==
    IF t = QueryResponseType THEN {}
    ELSE IF t = SendKeysType THEN Range(jsonFields(t)) \ {"offerID", "ethAddress"}
    ELSE Range(jsonFields(t))

\* a message: the type its Type() returns and the values of its fields
Messages ==
    UNION {[type : {t}, fields : [Range(jsonFields(t)) -> 0..MaxFieldValue]] :
              t \in QueryResponseType..NotifyETHLockedType}
NoMessage == [type |-> Unknown, fields |-> <<>>]

\* validate.Struct: every required field is set
validStruct(m) == \A f \in requiredFields(m.type) : m.fields[f] # 0

\* one element of a buffer: a byte, a brace of the JSON text, or the bytes of
\* one member "name":value of a JSON object
Byte(n) == [k |-> "byte", v |-> n]
LeftBrace == [k |-> "{", v |-> 0]
RightBrace == [k |-> "}", v |-> 0]
Member(name, value) == [k |-> name, v |-> value]

\* json.Marshal of a struct: every field in the order of the struct
jsonMarshal(m) ==
    <<LeftBrace>> \o [i \in DOMAIN jsonFields(m.type) |->
                         Member(jsonFields(m.type)[i], m.fields[jsonFields(m.type)[i]])]
                  \o <<RightBrace>>

\* Encode: vjson.MarshalStruct, then the type byte is prepended
EncodeWithoutType(m) ==
    IF validStruct(m) THEN [err |-> "nil", b |-> <<Byte(Unknown)>> \o jsonMarshal(m)]
    ELSE [err |-> "errValidation", b |-> <<>>]
Encode(m) ==
    IF validStruct(m) THEN [err |-> "nil", b |-> <<Byte(m.type)>> \o jsonMarshal(m)]
    ELSE [err |-> "errValidation", b |-> <<>>]

\* json.Unmarshal into a struct: the text is an object; a member whose name is
\* not a field's is skipped, the last member of a name sets the field, a field
\* without a member keeps its zero value
isJSONObject(js) ==
    /\ Len(js) >= 2 /\ js[1] = LeftBrace /\ js[Len(js)] = RightBrace
    /\ \A i \in 2..(Len(js) - 1) : js[i].k \notin {"byte", "{", "}"}
jsonUnmarshal(js, t) ==
    [f \in Range(jsonFields(t)) |->
        LET at == {i \in 2..(Len(js) - 1) : js[i].k = f}
        IN IF at = {} THEN 0
           ELSE js[CHOOSE i \in at : \A j \in at : j <= i].v]

\* vjson.UnmarshalStruct: json.Unmarshal, then validate.Struct
UnmarshalStruct(js, t) ==
    IF ~isJSONObject(js) THEN [err |-> "errDecode", msg |-> NoMessage]
    ELSE LET m == [type |-> t, fields |-> jsonUnmarshal(js, t)]
         IN IF validStruct(m) THEN [err |-> "nil", msg |-> m]
            ELSE [err |-> "errDecode", msg |-> NoMessage]

\* DecodeMessage: 1-byte type followed by at least 2-bytes of JSON (`{}`)
shorterThanTwo(b) == Len(b) < 2
tooShort(b) == Len(b) < 3

\* the value of the first byte; a brace or the quote that opens a member is a
\* byte above every type code
firstByte(b) == IF b[1].k = "byte" THEN b[1].v ELSE MaxTypeByte + 1

DecodeMessage(b) ==
    IF tooShort(b) THEN [err |-> "errInvalidMessageBytes", msg |-> NoMessage]
    ELSE IF firstByte(b) \notin QueryResponseType..NotifyETHLockedType
    THEN [err |-> "errInvalidMessageType", msg |-> NoMessage]
    ELSE UnmarshalStruct(SubSeq(b, 2, Len(b)), firstByte(b))

\* the buffers of raw bytes handed to DecodeMessage
RawBytes == {Byte(n) : n \in 0..MaxTypeByte} \cup {LeftBrace, RightBrace}
RawBuffers == UNION {[1..n -> RawBytes] : n \in 0..MaxBufLen}

\* the calls of DecodeMessage on a raw buffer, and of Encode on a message
\* followed by DecodeMessage on the result
CodecCalls ==
    [fn : {"codec"}, pc : {"decode"}, m : {NoMessage}, b : RawBuffers,
     encErr : {"none"}, err : {"none"}, msg : {NoMessage}]
    \cup [fn : {"codec"}, pc : {"encode"}, m : Messages, b : {<<>>},
          encErr : {"none"}, err : {"none"}, msg : {NoMessage}]

EncodeMessage ==
    /\ call.fn = "codec" /\ call.pc = "encode"
    /\ LET e == Encode(call.m)
       IN call' = [call EXCEPT !.pc = IF e.err = "nil" THEN "decode" ELSE "returned",
                               !.encErr = e.err, !.b = e.b]
    /\ UNCHANGED swapVars

DecodeBuffer ==
    /\ call.fn = "codec" /\ call.pc = "decode"
    /\ LET d == DecodeMessage(call.b)
       IN call' = [call EXCEPT !.pc = "returned", !.err = d.err, !.msg = d.msg]
    /\ UNCHANGED swapVars

\* ------------------------------------------------------------- offers
\* the versions an offer's JSON names are 0..MaxVersion
MaxVersion == 2
\* CurOfferVersion, the latest supported version of a serialised Offer
CurOfferVersion == 1
\* the coefficients of the amounts are 0..MaxCoeff and 10
MaxCoeff == 2
\* NewOffer's random nonce is drawn from 0..MaxOfferNonce
MaxOfferNonce == 1

\* *apd.Decimal: nil, or coeff * 10^exp
NilDecimal == [set |-> FALSE, coeff |-> 0, exp |-> 0]
Decimal(c, e) == [set |-> TRUE, coeff |-> c, exp |-> e]
Decimals == {Decimal(c, e) : c \in 0..MaxCoeff \cup {10}, e \in {0 - 1, 0}}
ExchangeRates == {Decimal(15, 0 - 1)}

\* Decimal.Reduce: trailing zeros of the coefficient go into the exponent
RECURSIVE Reduce(_)
Reduce(d) ==
    IF d.coeff = 0 THEN Decimal(0, 0)
    ELSE IF d.coeff % 10 = 0 THEN Reduce(Decimal(d.coeff \div 10, d.exp + 1))
    ELSE d

RECURSIVE Pow10(_)
Pow10(n) == IF n <= 0 THEN 1 ELSE 10 * Pow10(n - 1)

\* Decimal.Text('f'): the digits without an exponent, as (digits, places
\* after the point)
TextF(d) == IF d.exp > 0 THEN <<d.coeff * Pow10(d.exp), 0>> ELSE <<d.coeff, 0 - d.exp>>

\* Decimal.Cmp, on the values scaled by 10
Cmp(a, b) ==
    LET x == a.coeff * Pow10(a.exp + 1)
        y == b.coeff * Pow10(b.exp + 1)
    IN IF x < y THEN 0 - 1 ELSE IF x > y THEN 1 ELSE 0

\* coins.ValidatePositive
ValidatePositive(d) ==
    IF ~d.set THEN "errNotSet" ELSE IF d.coeff <= 0 THEN "errNotPositive" ELSE "nil"

\* Hash: the zero hash and the SHA3-256 of a byte sequence, which stands for it
ZeroHash == <<>>
OtherHash == <<"other">>
IsHashZero(h) == h = ZeroHash

\* Offer.hash: version, provides, then after a comma each: minAmount,
\* maxAmount, exchangeRate, ethAsset, nonce
hash(o) ==
    <<o.Version, o.Provides, TextF(o.MinAmount), TextF(o.MaxAmount),
      TextF(o.ExchangeRate), o.EthAsset, o.Nonce>>

NoOffer == [Version |-> 0, ID |-> ZeroHash, Provides |-> "", MinAmount |-> NilDecimal,
            MaxAmount |-> NilDecimal, ExchangeRate |-> NilDecimal, EthAsset |-> "",
            Nonce |-> 0]

\* setID: panics when the ID is already set
setID(o) ==
    IF ~IsHashZero(o.ID) THEN [panic |-> TRUE, o |-> o]
    ELSE [panic |-> FALSE, o |-> [o EXCEPT !.ID = hash(o)]]

\* NewOffer: the amounts and the rate are reduced, the nonce is random
NewOffer(coin, minAmount, maxAmount, exRate, ethAsset, n) ==
    setID([Version |-> CurOfferVersion, ID |-> ZeroHash, Provides |-> coin,
           MinAmount |-> Reduce(minAmount), MaxAmount |-> Reduce(maxAmount),
           ExchangeRate |-> Reduce(exRate), EthAsset |-> ethAsset, Nonce |-> n]).o

\* Offer.validate
minNotBelowMax(a, b) == Cmp(a, b) >= 0
minGreaterThanMax(a, b) == Cmp(a, b) > 0
hashNeverMismatches(o) == FALSE
hashMismatches(o) == o.ID # hash(o)
validate(o) ==
    IF IsHashZero(o.ID) THEN "errOfferIDNotSet"
    ELSE IF ValidatePositive(o.MinAmount) # "nil" THEN ValidatePositive(o.MinAmount)
    ELSE IF ValidatePositive(o.MaxAmount) # "nil" THEN ValidatePositive(o.MaxAmount)
    ELSE IF minGreaterThanMax(o.MinAmount, o.MaxAmount) THEN "errMinGreaterThanMax"
    ELSE IF ~o.ExchangeRate.set THEN "errExchangeRateNil"
    ELSE IF hashMismatches(o) THEN "errHashMismatch"
    ELSE "nil"

\* the validate:"required" tags of the Offer struct
validOfferStruct(o) ==
    /\ ~IsHashZero(o.ID) /\ o.Provides # ""
    /\ o.MinAmount.set /\ o.MaxAmount.set /\ o.ExchangeRate.set
    /\ o.Nonce # 0

\* the JSON text of a decimal (coefficient and exponent as written, null for
\* nil) and its reading
decimalJSON(d) == IF d.set THEN <<"number", d.coeff, d.exp>> ELSE <<"null">>
decimalFromJSON(t) == IF t = <<"null">> THEN NilDecimal ELSE Decimal(t[2], t[3])
\* the JSON text of the version; the member can be absent
NoVersion == <<"absent">>
versionJSON(v) == <<"version", v>>
versionFromJSON(t) == IF t = NoVersion THEN 0 ELSE t[2]

\* MarshalJSON: validate, then vjson.MarshalStruct of the fields
NoJSON == [version |-> NoVersion, offerID |-> ZeroHash, provides |-> "",
           minAmount |-> <<"null">>, maxAmount |-> <<"null">>,
           exchangeRate |-> <<"null">>, ethAsset |-> "", nonce |-> 0]
MarshalJSON(o) ==
    IF validate(o) # "nil" THEN [err |-> validate(o), js |-> NoJSON]
    ELSE IF ~validOfferStruct(o) THEN [err |-> "errFieldValidation", js |-> NoJSON]
    ELSE [err |-> "nil",
          js |-> [version |-> versionJSON(o.Version), offerID |-> o.ID,
                  provides |-> o.Provides, minAmount |-> decimalJSON(o.MinAmount),
                  maxAmount |-> decimalJSON(o.MaxAmount),
                  exchangeRate |-> decimalJSON(o.ExchangeRate),
                  ethAsset |-> o.EthAsset, nonce |-> o.Nonce]]

\* UnmarshalJSON: vjson.UnmarshalStruct of the fields, then validate
UnmarshalJSON(js) ==
    LET o == [Version |-> versionFromJSON(js.version), ID |-> js.offerID,
              Provides |-> js.provides, MinAmount |-> decimalFromJSON(js.minAmount),
              MaxAmount |-> decimalFromJSON(js.maxAmount),
              ExchangeRate |-> decimalFromJSON(js.exchangeRate),
              EthAsset |-> js.ethAsset, Nonce |-> js.nonce]
    IN IF ~validOfferStruct(o) THEN [err |-> "errFieldValidation", o |-> NoOffer]
       ELSE IF validate(o) # "nil" THEN [err |-> validate(o), o |-> NoOffer]
       ELSE [err |-> "nil", o |-> o]

\* UnmarshalOffer: the version is read and checked first
versionNotOlder(v) == v >= CurOfferVersion
versionGreaterThan(v) == v > CurOfferVersion
UnmarshalOffer(js) ==
    IF js.version = NoVersion THEN [err |-> "errOfferVersionMissing", o |-> NoOffer]
    ELSE IF versionGreaterThan(versionFromJSON(js.version))
    THEN [err |-> "errOfferVersionUnsupported", o |-> NoOffer]
    ELSE UnmarshalJSON(js)

\* the offers handed to MarshalJSON and to setID: any version, amounts and
\* rate, with no ID, the ID of their fields or another ID
OfferSamples ==
    {[f EXCEPT !.ID = IF id = "hash" THEN hash(f) ELSE IF id = "zero" THEN ZeroHash
                      ELSE OtherHash] :
        f \in [Version : 0..MaxVersion, ID : {ZeroHash}, Provides : {"XMR"},
               MinAmount : Decimals \cup {NilDecimal},
               MaxAmount : Decimals \cup {NilDecimal},
               ExchangeRate : ExchangeRates \cup {NilDecimal}, EthAsset : {"ETH"},
               Nonce : 0..MaxOfferNonce],
        id \in {"hash", "zero", "other"}}

\* the JSON texts handed to UnmarshalOffer and UnmarshalJSON: those of the
\* offers above, with or without the version member
JSONSamples ==
    {[version |-> IF hasVersion THEN versionJSON(o.Version) ELSE NoVersion,
      offerID |-> o.ID, provides |-> o.Provides, minAmount |-> decimalJSON(o.MinAmount),
      maxAmount |-> decimalJSON(o.MaxAmount),
      exchangeRate |-> decimalJSON(o.ExchangeRate), ethAsset |-> o.EthAsset,
      nonce |-> o.Nonce] : o \in OfferSamples, hasVersion \in BOOLEAN}

NoArgs == [minAmount |-> NilDecimal, maxAmount |-> NilDecimal, exRate |-> NilDecimal]

\* the calls: NewOffer, MarshalJSON and the unmarshalling of the result, in a
\* row; or starting from any offer or any JSON text; or setID on any offer
OfferCalls ==
    [fn : {"offer"}, pc : {"new"}, start : {"new"},
     args : [minAmount : Decimals, maxAmount : Decimals, exRate : ExchangeRates],
     o : {NoOffer}, js : {NoJSON}, viaUnmarshalOffer : {TRUE}, marshalErr : {"none"},
     err : {"none"}, out : {NoOffer}, panic : {FALSE}]
    \cup [fn : {"offer"}, pc : {"marshal", "setID"}, start : {"offer"}, args : {NoArgs},
          o : OfferSamples, js : {NoJSON}, viaUnmarshalOffer : {TRUE},
          marshalErr : {"none"}, err : {"none"}, out : {NoOffer}, panic : {FALSE}]
    \cup [fn : {"offer"}, pc : {"unmarshal"}, start : {"json"}, args : {NoArgs},
          o : {NoOffer}, js : JSONSamples, viaUnmarshalOffer : {TRUE},
          marshalErr : {"none"}, err : {"none"}, out : {NoOffer}, panic : {FALSE}]

NewOfferCall(n) ==
    /\ call.fn = "offer" /\ call.pc = "new"
    /\ call' = [call EXCEPT !.pc = "marshal",
                            !.o = NewOffer("XMR", call.args.minAmount, call.args.maxAmount,
                                           call.args.exRate, "ETH", n)]
    /\ UNCHANGED swapVars

SetIDCall ==
    /\ call.fn = "offer" /\ call.pc = "setID"
    /\ call' = [call EXCEPT !.pc = "returned", !.out = setID(call.o).o,
                            !.panic = setID(call.o).panic]
    /\ UNCHANGED swapVars

MarshalOffer ==
    /\ call.fn = "offer" /\ call.pc = "marshal"
    /\ LET r == MarshalJSON(call.o)
       IN call' = [call EXCEPT !.pc = IF r.err = "nil" THEN "unmarshal" ELSE "returned",
                               !.marshalErr = r.err, !.js = r.js]
    /\ UNCHANGED swapVars

\* UnmarshalOffer, or json.Unmarshal into an Offer, which calls UnmarshalJSON
UnmarshalOfferCall(viaUnmarshalOffer) ==
    /\ call.fn = "offer" /\ call.pc = "unmarshal"
    /\ LET r == IF viaUnmarshalOffer THEN UnmarshalOffer(call.js)
                ELSE UnmarshalJSON(call.js)
       IN call' = [call EXCEPT !.pc = "returned", !.err = r.err, !.out = r.o,
                               !.viaUnmarshalOffer = viaUnmarshalOffer]
    /\ UNCHANGED swapVars

\* ------------------------------------------- the secret and the spend key
\* the secret and the spend key have KeyLen bytes, each 0..MaxKeyByte
KeyLen == 3
MaxKeyByte == 2
KeyBytes == [1..KeyLen -> 0..MaxKeyByte]

\* common.Reverse: the bytes returned, and the bytes of the argument's backing
\* array after the call
reversed(b) == [i \in 1..Len(b) |-> b[Len(b) + 1 - i]]
ReverseInPlace(b) == [ret |-> reversed(b), arg |-> reversed(b)]
Reverse(b) == [ret |-> reversed(b), arg |-> b]

NoProof == <<>>
\* pcommon.GenerateKeysAndProof: the proof holds the secret, the spend key is
\* made of its bytes in the other order
GenerateKeysAndProof(secret) ==
    [DLEqProof |-> secret, PrivateKeyPair |-> Reverse(secret).ret]

\* getSecret: the proof's secret if there is a proof, else the spend key's
\* bytes reversed; with the spend key's bytes after the call
getSecretBytes(dleqProof, privkeys) ==
    IF dleqProof # NoProof THEN [ret |-> dleqProof, privkeys |-> privkeys]
    ELSE [ret |-> Reverse(privkeys).ret, privkeys |-> Reverse(privkeys).arg]

\* the calls of getSecret: in the swap that generated the keys, or in a swap
\* recovered from the spend key put in the recovery database
GetSecretCalls ==
    [fn : {"getSecret"}, pc : {"generate"}, secret : KeyBytes,
     recovered : BOOLEAN, dleqProof : {NoProof}, privkeys : {<<>>},
     spendKey : {<<>>}, ret : {<<>>}]

\* generateAndSetKeys, and for a recovered swap newSwapStateFromOngoing, which
\* sets privkeys from the database and no proof
GenerateAndSetKeys ==
    /\ call.fn = "getSecret" /\ call.pc = "generate"
    /\ LET keysAndProof == GenerateKeysAndProof(call.secret)
       IN call' = [call EXCEPT !.pc = "getSecret",
                               !.dleqProof = IF call.recovered THEN NoProof
                                             ELSE keysAndProof.DLEqProof,
                               !.privkeys = keysAndProof.PrivateKeyPair,
                               !.spendKey = keysAndProof.PrivateKeyPair]
    /\ UNCHANGED swapVars

GetSecret ==
    /\ call.fn = "getSecret" /\ call.pc = "getSecret"
    /\ LET r == getSecretBytes(call.dleqProof, call.privkeys)
       IN call' = [call EXCEPT !.pc = "returned", !.ret = r.ret,
                               !.privkeys = r.privkeys]
    /\ UNCHANGED swapVars

\* ------------------------------------- WaitForEthBlockAfterTimestamp
\* the wall clock and the timestamps are 0..MaxTime, in seconds
MaxTime == 3
\* the time of a new block header is behind the wall clock by up to MaxSkew
MaxSkew == 1
\* new block headers the subscription delivers to one call
MaxHeaders == 2

NoHeader == 0 - 1
ContextErrors == {"Canceled", "DeadlineExceeded"}

\* the sleep until ts: skipped when ts is not in the future; while it lasts it
\* ends with the context's error once the context is done; the outcomes the
\* sleep can have now
sleepIgnoringContext(ctx, now, ts, slept) == IF now >= ts THEN {"nil"} ELSE {}
SleepWithContext(ctx, now, ts, slept) ==
    (IF now >= ts THEN {"nil"} ELSE {})
        \cup (IF ctx # "live" /\ (now < ts \/ slept) THEN {ctx} ELSE {})

\* the first header with header.Time >= ts.Unix() is returned
headerAfter(time, ts) == time > ts
headerNotBefore(time, ts) == time >= ts

\* the calls: the clock on entry, the timestamp, the context live or done
WaitForEthBlockCalls ==
    [fn : {"WaitForEthBlockAfterTimestamp"}, pc : {"sleep"}, now : 0..MaxTime,
     ts : 0..MaxTime, ctx : {"live"} \cup ContextErrors, slept : {FALSE},
     entry : {0}, seen : {<<>>}, header : {NoHeader}, err : {"none"}]
WaitForEthBlockEntered ==
    {[c EXCEPT !.entry = c.now] : c \in WaitForEthBlockCalls}

\* time passes, and the caller's context is cancelled or reaches its deadline
ClockTick ==
    /\ call.fn = "WaitForEthBlockAfterTimestamp" /\ call.pc # "returned"
    /\ call.now < MaxTime
    /\ call' = [call EXCEPT !.now = @ + 1,
                            !.slept = @ \/ (call.pc = "sleep" /\ call.now < call.ts)]
    /\ UNCHANGED swapVars

ContextDone(e) ==
    /\ call.fn = "WaitForEthBlockAfterTimestamp" /\ call.pc # "returned"
    /\ call.ctx = "live"
    /\ call' = [call EXCEPT !.ctx = e]
    /\ UNCHANGED swapVars

\* the initial sleep ends
SleepEnds(outcome) ==
    /\ call.fn = "WaitForEthBlockAfterTimestamp" /\ call.pc = "sleep"
    /\ outcome \in SleepWithContext(call.ctx, call.now, call.ts, call.slept)
    /\ call' = IF outcome = "nil" THEN [call EXCEPT !.pc = "subscribe"]
               ELSE [call EXCEPT !.pc = "returned", !.err = outcome]
    /\ UNCHANGED swapVars

\* SubscribeNewHead
SubscribeNewHead(ok) ==
    /\ call.fn = "WaitForEthBlockAfterTimestamp" /\ call.pc = "subscribe"
    /\ call' = IF ok THEN [call EXCEPT !.pc = "headers"]
               ELSE [call EXCEPT !.pc = "returned", !.err = "errSubscribe"]
    /\ UNCHANGED swapVars

\* waiting for headers, the context is found done
HeadersContextDone ==
    /\ call.fn = "WaitForEthBlockAfterTimestamp" /\ call.pc = "headers"
    /\ call.ctx # "live"
    /\ call' = [call EXCEPT !.pc = "returned", !.err = call.ctx]
    /\ UNCHANGED swapVars

\* waiting for headers, a new header is received
HeaderReceived(time) ==
    /\ call.fn = "WaitForEthBlockAfterTimestamp" /\ call.pc = "headers"
    /\ Len(call.seen) < MaxHeaders
    /\ time <= call.now /\ time >= call.now - MaxSkew
    /\ \A i \in DOMAIN call.seen : call.seen[i] <= time
    /\ call' = IF headerNotBefore(time, call.ts)
               THEN [call EXCEPT !.pc = "returned", !.err = "nil", !.header = time,
                                 !.seen = Append(@, time)]
               ELSE [call EXCEPT !.seen = Append(@, time)]
    /\ UNCHANGED swapVars

\* ------------------------------------------------------ validateChainID
\* the chain IDs of the three environments
MainnetChainID == 1
GoerliChainID == 5
GanacheChainID == 1337
\* the chain IDs a node reports: those three and 0..MaxChainID
MaxChainID == 6

Environments == {"Development", "Stagenet", "Mainnet"}
ChainIDs == 0..MaxChainID \cup {MainnetChainID, GoerliChainID, GanacheChainID}

\* the chain an environment selects
mainnetChain(env) == [name |-> "Mainnet", id |-> MainnetChainID]
expectedChain(env) ==
    IF env = "Mainnet" THEN [name |-> "Mainnet", id |-> MainnetChainID]
    ELSE IF env = "Stagenet" THEN [name |-> "Goerli", id |-> GoerliChainID]
    ELSE [name |-> "Ganache", id |-> GanacheChainID]

NoChainError == [expected |-> "", id |-> 0, found |-> 0]
\* validateChainID: "expected %s chain ID (%d), but found %d"
validateChainID(env, chainID) ==
    IF chainID = expectedChain(env).id THEN [nil |-> TRUE, msg |-> NoChainError]
    ELSE [nil |-> FALSE,
          msg |-> [expected |-> expectedChain(env).name, id |-> expectedChain(env).id,
                   found |-> chainID]]

ValidateChainIDCalls ==
    [fn : {"validateChainID"}, pc : {"call"}, env : Environments, chainID : ChainIDs,
     err : {[nil |-> TRUE, msg |-> NoChainError]}]

ValidateChainID ==
    /\ call.fn = "validateChainID" /\ call.pc = "call"
    /\ call' = [call EXCEPT !.pc = "returned",
                            !.err = validateChainID(call.env, call.chainID)]
    /\ UNCHANGED swapVars

\* ------------------------------ the SwapFactory a swap refers to on chain
\* One swap from construction to its relayed claim: b.ContractAddr() is the
\* backend's SwapFactory, address the one the swap was created on (the argument
\* of setContract). The fields record the address each on-chain reference uses.
SwapContractCalls ==
    [fn : {"swapContract"}, pc : {"newSwapState"},
     backendContractAddr : SwapFactories, address : SwapFactories,
     readyFilter : {"none"}, refundedFilter : {"none"}, contractAddr : {"none"},
     forwarderAddress : {"none"}, reqSwapFactoryAddress : {"none"},
     receiptContractAddr : {"none"}, err : {"none"}]

\* newSwapState: both log filters are created on b.ContractAddr()
NewEventFilters ==
    /\ call.fn = "swapContract" /\ call.pc = "newSwapState"
    /\ call' = [call EXCEPT !.pc = "setContract",
                            !.readyFilter = call.backendContractAddr,
                            !.refundedFilter = call.backendContractAddr]
    /\ UNCHANGED swapVars

\* setContract: s.contractAddr = address, then NewSwapFactory(address)
SetContract(ok) ==
    /\ call.fn = "swapContract" /\ call.pc = "setContract"
    /\ call' = [call EXCEPT !.pc = IF ok THEN "claim" ELSE "returned",
                            !.contractAddr = call.address,
                            !.err = IF ok THEN "none" ELSE "err"]
    /\ UNCHANGED swapVars

\* discoverRelayersAndClaim: s.Contract().TrustedForwarder() is asked of the
\* backend's SwapFactory; CreateRelayClaimRequest and waitForClaimReceipt are
\* given s.contractAddr
RelayClaimOfSwap ==
    /\ call.fn = "swapContract" /\ call.pc = "claim"
    /\ call' = [call EXCEPT !.pc = "returned",
                            !.forwarderAddress = TrustedForwarder(call.backendContractAddr),
                            !.reqSwapFactoryAddress = call.contractAddr,
                            !.receiptContractAddr = call.contractAddr,
                            !.err = "nil"]
    /\ UNCHANGED swapVars

\* the steps of the called function
CallStep ==
    \/ CheckClaimedLog
    \/ WaitSleep
    \/ \E r \in TxByHashResults : WaitPoll(r)
    \/ \E rc \in Receipts \cup {NoReceipt} : WaitReceipt(rc)
    \/ \E pre \in BOOLEAN, balanceZero \in BOOLEAN : ClaimFundsStart(pre, balanceZero)
    \/ \E ok \in BOOLEAN : ClaimFundsDirect(ok)
    \/ \E ok \in BOOLEAN, rs \in RelayerLists : DiscoverRelayers(ok, rs)
    \/ \E result \in RelayerResults : SubmitClaimToRelayer(result)
    \/ \E ok \in BOOLEAN : ClaimFundsPost(ok)
    \/ ValidateClaimValues
    \/ \E rpcOk \in BOOLEAN, sigOk \in BOOLEAN : ValidateClaimSignature(rpcOk, sigOk)
    \/ \E rpcOk \in BOOLEAN : CreateForwarderSignature(rpcOk)
    \/ \E rpcOk \in BOOLEAN : ValidateSignedClaim(rpcOk)
    \/ EncodeMessage
    \/ DecodeBuffer
    \/ \E n \in 0..MaxOfferNonce : NewOfferCall(n)
    \/ SetIDCall
    \/ MarshalOffer
    \/ \E viaUnmarshalOffer \in BOOLEAN : UnmarshalOfferCall(viaUnmarshalOffer)
    \/ GenerateAndSetKeys
    \/ GetSecret
    \/ \E outcome \in {"nil"} \cup ContextErrors : SleepEnds(outcome)
    \/ \E ok \in BOOLEAN : SubscribeNewHead(ok)
    \/ HeadersContextDone
    \/ ValidateChainID
    \/ NewEventFilters
    \/ \E ok \in BOOLEAN : SetContract(ok)
    \/ RelayClaimOfSwap

CallInit ==
    /\ SwapInit
    /\ mode = "start"
    /\ call \in CheckClaimedLogCalls \cup {WaitForClaimReceiptCall, ClaimFundsCall}
                \cup ValidateClaimRequestCalls \cup RelayClaimCalls
                \cup CodecCalls \cup OfferCalls \cup GetSecretCalls
                \cup WaitForEthBlockEntered \cup ValidateChainIDCalls
                \cup SwapContractCalls
    /\ call.fn # "claimFunds" => ~useRelayer

CallNext ==
    \/ CheckClaimedLog
    \/ WaitCtxDone
    \/ WaitSleep
    \/ \E r \in TxByHashResults : WaitPoll(r)
    \/ \E rc \in Receipts \cup {NoReceipt} : WaitReceipt(rc)
    \/ \E pre \in BOOLEAN, balanceZero \in BOOLEAN : ClaimFundsStart(pre, balanceZero)
    \/ \E ok \in BOOLEAN : ClaimFundsDirect(ok)
    \/ \E ok \in BOOLEAN, rs \in RelayerLists : DiscoverRelayers(ok, rs)
    \/ \E result \in RelayerResults : SubmitClaimToRelayer(result)
    \/ \E ok \in BOOLEAN : ClaimFundsPost(ok)
    \/ ValidateClaimValues
    \/ \E rpcOk \in BOOLEAN, sigOk \in BOOLEAN : ValidateClaimSignature(rpcOk, sigOk)
    \/ \E rpcOk \in BOOLEAN : CreateForwarderSignature(rpcOk)
    \/ \E v \in Secrets : RequestChanged("secret", v)
    \/ \E v \in ContractSwaps : RequestChanged("swap", v)
    \/ \E v \in SwapFactories : RequestChanged("swapFactoryAddress", v)
    \/ \E v \in SignatureSamples : RequestChanged("signature", v)
    \/ \E fw \in Forwarders, a \in EthAddrs : NonceAdvanced(fw, a)
    \/ \E rpcOk \in BOOLEAN : ValidateSignedClaim(rpcOk)
    \/ EncodeMessage
    \/ DecodeBuffer
    \/ \E n \in 0..MaxOfferNonce : NewOfferCall(n)
    \/ SetIDCall
    \/ MarshalOffer
    \/ \E viaUnmarshalOffer \in BOOLEAN : UnmarshalOfferCall(viaUnmarshalOffer)
    \/ GenerateAndSetKeys
    \/ GetSecret
    \/ \E outcome \in {"nil"} \cup ContextErrors : SleepEnds(outcome)
    \/ \E ok \in BOOLEAN : SubscribeNewHead(ok)
    \/ HeadersContextDone
    \/ ClockTick
    \/ \E e \in ContextErrors : ContextDone(e)
    \/ \E time \in 0..MaxTime : HeaderReceived(time)
    \/ ValidateChainID
    \/ NewEventFilters
    \/ \E ok \in BOOLEAN : SetContract(ok)
    \/ RelayClaimOfSwap

\* a called function runs on until it returns
CallSpec == CallInit /\ [][CallNext]_vars /\ WF_vars(CallStep)

\* --------------------------------------------------------------- claims

Released == {m \in outbox : getSecret \in m.carries}

\* C1: the secret leaves the process only inside a Claim transaction or a
\* RelayClaimRequest, only while a ContractReady event is being handled and
\* ContractReady was the expected event (never while ETHLocked is expected),
\* and no SendKeysMessage carries it.
SecretReleaseOrdering ==
    \A m \in Released :
        /\ m.kind \in {"Claim", "RelayClaimRequest"}
        /\ m.onEvent = "ContractReady"
        /\ m.nee = "ContractReady"

\* a SendKeysMessage was sent and later the secret was released in a claim
SecretReleasedAfterReady ==
    /\ \E m \in outbox : m.kind = "SendKeysMessage"
    /\ \E m \in Released : m.kind = "RelayClaimRequest"
    /\ exitRet.via = "Exit" /\ exitRet.inner = "ContractReady"

\* the Recovery DB records an irreversible action needs to be resumable
Checkpoint(act) ==
    IF act = "Sweep"
    THEN {"swap-private-key", "counterparty-swap-keys", "counterparty-swap-private-key"}
    ELSE {"swap-private-key", "counterparty-swap-keys"}

\* C2: when an irreversible action (the XMR Transfer of lockFunds, the claim,
\* the sweep of reclaimMonero) is issued, the Recovery DB already holds our
\* swap private key and the counterparty's swap keys, and for the sweep the
\* counterparty's private key.
IrreversibleActionGuard ==
    \A a \in acts : Checkpoint(a.act) \subseteq a.db

\* a swap that locked XMR, tried to claim and then swept the XMR back
LockedClaimedAndSwept ==
    /\ \E a \in acts : a.act = "Transfer"
    /\ \E a \in acts : a.act = "Claim"
    /\ \E a \in acts : a.act = "Sweep"

\* C3: the Recovery DB record is deleted only at a terminal status.
DeletedOnlyWhenTerminal ==
    deletedAt \subseteq TerminalStatuses

\* C4: once Transfer was called, the swap never has status CompletedAbort.
NoAbortAfterTransfer ==
    (\E a \in acts : a.act = "Transfer") => status # "CompletedAbort"

Handling == {l \in Loops : pc[l] \in {"handling", "exitWait"}}

\* C5: at most one goroutine is inside a handler of the swap at any time, also
\* while exit is receiving from the event channel, and the events are taken from
\* the channel in the order they were put on it.
OneHandlerAtATime ==
    /\ Cardinality(Handling) <= 1
    /\ inOrder

\* exit waits in its ContractReady-expected branch, the next event is on the
\* channel, and the event loop is not taking it
ExitHoldsTheChannel ==
    /\ \E l \in Loops : pc[l] = "exitWait"
    /\ eventCh # <<>>
    /\ putSeq >= 3

\* C6: once an exit has run its clean-up, the done channel is closed, and it
\* is never closed a second time.
DoneClosedExactlyOnce ==
    /\ exitRet.via # "none" => done = 1
    /\ ~(exitRet.via # "none" /\ exitRet.ran /\ crashed)

\* C7: an Exit handled when nextExpectedEvent is None returns nil and leaves
\* the status, the offers, the Swap Manager, the Recovery DB and done as they were.
ExitWhenTerminalIsNoOp ==
    (exitRet.via = "Exit" /\ exitRet.nee0 = "None") =>
        (~exitRet.err /\ ~exitRet.changed)

\* C8: an Exit handled while ETHLocked is expected ends with CompletedAbort,
\* returns nil, and no XMR was locked: fundsLocked is false and no Transfer
\* was issued.
ExitBeforeLockAborts ==
    (exitRet.via = "Exit" /\ exitRet.nee0 = "ETHLocked") =>
        /\ exitRet.status1 = "CompletedAbort"
        /\ ~exitRet.err
        /\ ~exitRet.locked
        /\ ~exitRet.transferred

\* C9: an Exit handled while ContractReady is expected returns only after it
\* took a ContractReady or ETHRefunded event from the channel, ran its handler
\* and closed the event's errCh.
ExitAfterLockHandlesNextEvent ==
    (exitRet.via = "Exit" /\ exitRet.nee0 = "ContractReady") =>
        /\ exitRet.inner \in {"ContractReady", "ETHRefunded"}
        /\ exitRet.signalled

\* C10: if the per-swap context is cancelled while exit waits for the next event,
\* exit eventually returns.
CancellationUnblocksExit ==
    (ctxCancelled /\ \E l \in Loops : pc[l] = "exitWait")
        ~> (\A l \in Loops : pc[l] # "exitWait")

\* C11: after exit has run, the swap is no longer registered as ongoing in the
\* Swap Manager, and the offer is absent from the offer manager if the final
\* status is CompletedSuccess and present if it is CompletedRefund or
\* CompletedAbort.
OffersAfterExit ==
    exitRet.via # "none" =>
        /\ ~ongoing
        /\ status = "CompletedSuccess" => ~offers
        /\ status \in {"CompletedRefund", "CompletedAbort"} => offers

\* the step in which newSwapStateFromOngoing checks the persisted status
ResumeAttempt == mode = "ongoing" /\ ctor = "new" /\ ctor' # "new"

\* C12: newSwapStateFromOngoing returns errInvalidStageForRecovery exactly when
\* the persisted status is not XMRLocked, and it then has created no per-swap
\* context, started no log filter and started no goroutine.
ResumesOnlyFromXMRLocked ==
    [][ResumeAttempt =>
         IF status # "XMRLocked"
         THEN /\ built'.err = "errInvalidStageForRecovery"
              /\ ~built'.ctx
              /\ built'.watchers = {}
              /\ \A l \in Loops : pc'[l] = "off"
         ELSE built'.err # "errInvalidStageForRecovery"]_vars

\* a swap persisted at KeysExchanged was refused
RefusedBeforeLock ==
    /\ mode = "ongoing"
    /\ status = "KeysExchanged"
    /\ built.err = "errInvalidStageForRecovery"

\* the constructor of a resumed swap runs on: newSwapState and the setting of
\* the fields are steps of one goroutine
ResumeStep ==
    \/ \E ok \in BOOLEAN : NewSwapStateFromOngoing(ok)
    \/ \E ok \in BOOLEAN : OngoingSetFields(ok)

RecoverySpec == FairSpec /\ WF_vars(ResumeStep)

\* a Ready log of the swap exists at or after ethSwapInfo.StartNumber
ReadyLogExists ==
    \E g \in logs : g.topic = "Ready" /\ g.block >= ethSwapInfoStartNumber

\* what ends a resumed swap otherwise: the constructor or claimFunds returned
\* an error, the taker refunded, the context was cancelled, Exit was called
RecoveryGivenUp ==
    \/ ctor = "failed"
    \/ claimErr
    \/ chain = "refunded"
    \/ ctxCancelled
    \/ \E i \in ExitCallers : snd[ExitCaller(i)] # "idle"

\* C13: a swap persisted at XMRLocked and resumed with newSwapStateFromOngoing
\* watches the Ready and Refunded logs from ethSwapInfo.StartNumber on, and if a
\* Ready log exists at or after that block, it eventually ends with status
\* CompletedSuccess (unless a call fails, the taker refunds, the backend shuts
\* down or Exit is called).
RecoveryClaims ==
    /\ [](mode = "ongoing" /\ built.ctx =>
              /\ built.watchers = {"Ready", "Refunded"}
              /\ built.ethStartNumber = ethSwapInfoStartNumber)
    /\ (mode = "ongoing" /\ status = "XMRLocked" /\ ReadyLogExists)
          ~> (status = "CompletedSuccess" \/ RecoveryGivenUp)

\* C14: waitForClaimReceipt returns the NotFound error only after
\* TransactionByHash has answered NotFound more than maxNotFound (10) times.
ToleratesNotFound ==
    (call.fn = "waitForClaimReceipt" /\ call.ret = "NotFound") =>
        call.nfSeen > maxNotFound

\* C15: waitForClaimReceipt returns, whatever TransactionByHash answers; it
\* does not sleep again once more than maxWait (60) seconds have passed, the
\* timeout error is returned only then; and with a cancelled context the sleep
\* returns the context's error.
WaitTerminates ==
    /\ (call.fn = "waitForClaimReceipt") ~> (call.pc = "returned")
    /\ [](call.fn = "waitForClaimReceipt" =>
              /\ call.pc = "sleep" => call.elapsed <= maxWait
              /\ call.ret = "errRelayedTransactionTimeout" => call.elapsed > maxWait
              /\ call.ret = "ctxErr" => call.ctxDone)
    /\ [][(call.fn = "waitForClaimReceipt" /\ call.pc = "sleep" /\ call.ctxDone) =>
              call'.ret = "ctxErr"]_call

\* the transaction stayed pending for the whole wait
TimedOutWhilePending ==
    /\ call.fn = "waitForClaimReceipt"
    /\ call.ret = "errRelayedTransactionTimeout"
    /\ ~call.mined
    /\ call.elapsed = maxWait + checkInterval

\* the log a valid receipt of our claim starts with
IsClaimedLog(log) ==
    /\ log.address = "contractAddr"
    /\ log.topics = <<"claimedTopic", "contractSwapID", "secret">>

\* C16: once the transaction is mined within the wait, waitForClaimReceipt
\* returns nil exactly when the receipt has status Successful, at least one
\* log, and a first log that is the Claimed log of the swap; the other logs
\* are not looked at.
ReceiptValidation ==
    (call.fn = "waitForClaimReceipt" /\ call.pc = "returned" /\ call.mined) =>
        (call.ret = "nil" <=>
            /\ call.receipt.status = "Successful"
            /\ Len(call.receipt.logs) >= 1
            /\ IsClaimedLog(call.receipt.logs[1]))

\* a receipt whose first log is the Claimed log and whose second is not
ValidFirstLogOnly ==
    /\ call.fn = "waitForClaimReceipt" /\ call.pc = "returned" /\ call.mined
    /\ call.ret = "nil"
    /\ Len(call.receipt.logs) = 2
    /\ ~IsClaimedLog(call.receipt.logs[2])

\* the error of the first check of checkClaimedLog that fails
FirstFailingCheck(log) ==
    CASE log.address # "contractAddr" -> "errClaimedLogInvalidContractAddr"
      [] log.address = "contractAddr" /\ Len(log.topics) # 3 ->
            "errClaimedLogWrongTopicLength"
      [] OTHER ->
            IF log.topics[1] # "claimedTopic" THEN "errClaimedLogWrongEvent"
            ELSE IF log.topics[2] # "contractSwapID" THEN "errClaimedLogWrongSwapID"
            ELSE IF log.topics[3] # "secret" THEN "errClaimedLogWrongSecret"
            ELSE "nil"

\* C17: checkClaimedLog returns nil exactly for a log of contractAddr with the
\* three topics claimedTopic, contractSwapID, secret; and the error is that of
\* the first failing check: address, topic length, event, swap ID, secret.
ClaimedLogCheck ==
    (call.fn = "checkClaimedLog" /\ call.pc = "returned") =>
        /\ call.ret = "nil" <=> IsClaimedLog(call.log)
        /\ call.ret = FirstFailingCheck(call.log)

\* a log with a fourth topic after the three right ones was rejected
FourTopicsRejected ==
    /\ call.fn = "checkClaimedLog" /\ call.pc = "returned"
    /\ call.log.address = "contractAddr"
    /\ Len(call.log.topics) = 4
    /\ SubSeq(call.log.topics, 1, 3) = ClaimedLog.topics
    /\ call.ret = "errClaimedLogWrongTopicLength"

\* C18: discoverRelayersAndClaim submits the one request it created to the
\* relayers in the order of the list; a relayer is contacted only after every
\* relayer before it failed; it returns the hash of the relayer whose receipt
\* validated, which is the last one contacted; and it returns an error and no
\* hash only after every relayer of the list failed.
RelayerFailover ==
    (call.fn = "claimFunds" /\ call.path = "relayer") =>
        /\ Len(call.contacted) <= Len(call.relayers)
        /\ \A k \in DOMAIN call.contacted :
              /\ call.contacted[k].relayer = call.relayers[k]
              /\ call.contacted[k].req = call.req
              /\ k < Len(call.contacted) => call.contacted[k].result # "ok"
        /\ call.dRet = "nil" =>
              /\ call.contacted # <<>>
              /\ call.contacted[Len(call.contacted)].result = "ok"
              /\ call.dHash = TxHash(call.contacted[Len(call.contacted)].relayer)
        /\ call.dRet \notin {"none", "nil"} =>
              /\ call.dHash = NoHash
              /\ Len(call.contacted) = Len(call.relayers)
              /\ \A k \in DOMAIN call.contacted : call.contacted[k].result # "ok"

\* the first relayer's receipt did not validate and the second relayer's did
SecondRelayerSucceeded ==
    /\ call.fn = "claimFunds" /\ call.dRet = "nil"
    /\ Len(call.contacted) = 2
    /\ call.contacted[1].result = "receiptErr"
    /\ call.dHash = TxHash(call.relayers[2])

\* C19: claimFunds takes the relayer path exactly when UseRelayer is set or
\* the wei balance is zero; on the relayer path no claim goes through the tx
\* sender, also not after the relayers failed, and that failure is the error
\* claimFunds returns; on the other path the claim goes through the tx sender
\* and no relayer is contacted.
ClaimPath ==
    (call.fn = "claimFunds" /\ call.path # "none") =>
        /\ call.path = "relayer" <=> (useRelayer \/ call.balanceZero)
        /\ call.path = "relayer" =>
              /\ call.direct = 0
              /\ call.dRet \notin {"none", "nil"} =>
                    (call.pc = "returned" /\ call.ret = call.dRet)
        /\ call.path = "direct" =>
              /\ call.contacted = <<>> /\ call.dRet = "none"
              /\ call.pc \in {"post", "returned"} => call.direct = 1

\* UseRelayer is not set, the balance is zero, every relayer failed, and
\* claimFunds returned that error
ZeroBalanceRelayersFailed ==
    /\ call.fn = "claimFunds" /\ call.pc = "returned"
    /\ ~useRelayer /\ call.balanceZero
    /\ call.ret = "errNoRelayerSucceeded"
    /\ Len(call.contacted) = 2

\* C20: validateClaimRequest returns nil exactly when the request's
\* SwapFactory address is ours or its deployed code is accepted, the asset is
\* ETH, the swap's value is greater than FeeWei, and Verify was called and
\* accepted the signature; the error is that of the first of these checks that
\* fails; and Verify is not called when a check of the values fails.
ClaimRequestValidation ==
    (call.fn = "validateClaimRequest" /\ call.pc = "returned") =>
        LET factoryOk == call.sameAddr \/ call.codeOk
            assetOk == call.asset = "ETH"
            valueOk == call.value > call.feeWei
        IN /\ call.ret = "nil" <=>
                 (factoryOk /\ assetOk /\ valueOk /\ call.verified /\ call.sigOk)
           /\ ~factoryOk => call.ret = "errContractCode"
           /\ (factoryOk /\ ~assetOk) => call.ret = "errUnsupportedAsset"
           /\ (factoryOk /\ assetOk /\ ~valueOk) => call.ret = "errValueTooLow"
           /\ (factoryOk /\ assetOk /\ valueOk /\ call.verified /\ ~call.sigOk) =>
                 call.ret = "errVerifySignature"
           /\ ~(factoryOk /\ assetOk /\ valueOk) => ~call.verified

\* a swap whose value equals the fee was rejected without a call of Verify
ValueEqualToFeeRejected ==
    /\ call.fn = "validateClaimRequest" /\ call.pc = "returned"
    /\ call.value = call.feeWei /\ call.value > 0
    /\ call.ret = "errValueTooLow"
    /\ ~call.verified

\* C21: a request signed by createForwarderSignature is accepted by
\* validateClaimSignature when it arrives as it was signed, the claimer's nonce
\* at the signing forwarder is the one signed and that forwarder is the
\* factory's trusted forwarder (and the relayer's RPC calls succeed): both
\* sides then derive the same forward request {from: claimer, to: the factory,
\* value 0, gas relayedClaimGas, nonce, data: pack(claimRelayer, swap, secret,
\* FeeWei), validUntilTime 0}; and a request whose secret, swap, factory
\* address or signature was changed after such a signing, or whose nonce has
\* advanced since, is refused.
SignVerifyRoundTrip ==
    (call.fn = "relayClaim" /\ call.pc = "returned" /\ call.signed) =>
        LET signedReq == createForwarderRequest(call.signedNonce, call.swapFactoryAddress,
                                                call.swap, call.secret)
            trusted == call.forwarderAddress = TrustedForwarder(call.swapFactoryAddress)
            nonceNow == call.nonces[call.forwarderAddress][call.swap.claimer]
        IN /\ (call.req = call.sent /\ nonceNow = call.signedNonce /\ trusted
                    /\ call.verified) =>
                 /\ call.ret = "nil"
                 /\ call.fwdReq = signedReq
                 /\ call.fwdReq =
                        [from |-> call.swap.claimer, to |-> call.swapFactoryAddress,
                         value |-> 0, gas |-> "relayedClaimGas",
                         nonce |-> call.signedNonce,
                         data |-> <<"claimRelayer", call.swap, call.secret, "FeeWei">>,
                         validUntilTime |-> 0]
           /\ (trusted /\ (call.req # call.sent \/ nonceNow # call.signedNonce)) =>
                 call.ret # "nil"

\* a request was accepted as it was signed
SignedRequestAccepted ==
    /\ call.fn = "relayClaim" /\ call.pc = "returned" /\ call.signed
    /\ call.req = call.sent /\ call.ret = "nil"

\* C22: DecodeMessage rejects every buffer shorter than 3 bytes, whatever its
\* first byte, and rejects every buffer of 3 bytes or more whose first byte is
\* not one of the five type codes (0, and every value above 5) as an invalid
\* message type; in both cases no message is returned.
DecodeRejects ==
    (call.fn = "codec" /\ call.pc = "returned" /\ call.encErr = "none") =>
        /\ Len(call.b) < 3 =>
              call.err = "errInvalidMessageBytes" /\ call.msg = NoMessage
        /\ (Len(call.b) >= 3 /\ firstByte(call.b) \notin {1, 2, 3, 4, 5}) =>
              call.err = "errInvalidMessageType" /\ call.msg = NoMessage

\* a buffer of two bytes that starts with a known type code was rejected
TwoBytesOfKnownTypeRejected ==
    /\ call.fn = "codec" /\ call.pc = "returned" /\ call.encErr = "none"
    /\ Len(call.b) = 2 /\ call.b[1] = Byte(SendKeysType)
    /\ call.err # "nil"

\* C23: for each of the five kinds of message, Encode of a valid message gives
\* a buffer whose first byte is the kind's type code (1 QueryResponse,
\* 2 RelayClaimRequest, 3 RelayClaimResponse, 4 SendKeys, 5 NotifyETHLocked)
\* followed by the JSON body, and DecodeMessage of that buffer returns a
\* message of the same kind, whose Type() is the first byte, with equal fields.
CodecRoundTrip ==
    (call.fn = "codec" /\ call.pc = "returned" /\ call.encErr = "nil") =>
        /\ call.b[1] = Byte(call.m.type)
        /\ call.m.type \in {1, 2, 3, 4, 5}
        /\ SubSeq(call.b, 2, Len(call.b)) = jsonMarshal(call.m)
        /\ call.err = "nil"
        /\ call.msg.type = call.b[1].v
        /\ call.msg = call.m

\* a SendKeysMessage without offerID and ethAddress went through the codec
SendKeysDecoded ==
    /\ call.fn = "codec" /\ call.pc = "returned" /\ call.encErr = "nil"
    /\ call.m.type = SendKeysType /\ call.m.fields["offerID"] = 0
    /\ call.msg = call.m

\* the fields a JSON text gives an offer, and what is said of its amounts
OfferFromJSON(js) ==
    [Version |-> versionFromJSON(js.version), ID |-> js.offerID, Provides |-> js.provides,
     MinAmount |-> decimalFromJSON(js.minAmount),
     MaxAmount |-> decimalFromJSON(js.maxAmount),
     ExchangeRate |-> decimalFromJSON(js.exchangeRate), EthAsset |-> js.ethAsset,
     Nonce |-> js.nonce]
IsPositive(d) == d.set /\ d.coeff > 0
AmountsInOrder(o) ==
    /\ IsPositive(o.MinAmount) /\ IsPositive(o.MaxAmount)
    /\ Cmp(o.MinAmount, o.MaxAmount) <= 0

\* C24: marshalling a valid offer (one MarshalJSON accepts, of a supported
\* version) to JSON and unmarshalling the result, with UnmarshalOffer or
\* UnmarshalJSON, gives an offer equal to it in every field, the ID included,
\* and the ID is hash() of the fields before and after.
OfferRoundTrip ==
    (/\ call.fn = "offer" /\ call.pc = "returned" /\ call.marshalErr = "nil"
     /\ call.viaUnmarshalOffer => call.o.Version <= 1) =>
        /\ call.err = "nil"
        /\ call.out = call.o
        /\ call.o.ID = hash(call.o)
        /\ call.out.ID = hash(call.out)

\* an offer made by NewOffer from the amount 10, reduced to 1E+1, came back
\* equal
ReducedOfferCameBack ==
    /\ call.fn = "offer" /\ call.pc = "returned" /\ call.start = "new"
    /\ call.o.MinAmount.exp = 1
    /\ call.err = "nil" /\ call.out = call.o

OfferInvariantHolds(o) == AmountsInOrder(o) /\ o.ID = hash(o)

\* C26 (as stated): every offer returned by NewOffer and every offer that
\* MarshalJSON or UnmarshalJSON accepts satisfies 0 < minAmount <= maxAmount
\* and ID == hash(fields), with minAmount == maxAmount accepted; and setID
\* never overwrites an ID that is already non-zero.
OfferInvariantAsStated ==
    call.fn = "offer" =>
        /\ (call.start = "new" /\ call.pc # "new") => OfferInvariantHolds(call.o)
        /\ call.marshalErr = "nil" => OfferInvariantHolds(call.o)
        /\ (call.pc = "returned" /\ call.err = "nil") => OfferInvariantHolds(call.out)
        /\ (/\ call.start = "offer" /\ call.marshalErr # "none"
            /\ AmountsInOrder(call.o) /\ Cmp(call.o.MinAmount, call.o.MaxAmount) = 0
            /\ call.o.ExchangeRate.set /\ call.o.Nonce # 0 /\ call.o.ID = hash(call.o)) =>
              call.marshalErr = "nil"
        /\ (call.pc = "returned" /\ call.start = "offer" /\ call.marshalErr = "none"
            /\ call.o.ID # ZeroHash) =>
              call.panic /\ call.out.ID = call.o.ID

\* C26 (amended): every offer returned by NewOffer has ID == hash(fields), the
\* current version and the amounts it was given, whatever they are; every
\* offer that MarshalJSON or UnmarshalJSON accepts satisfies
\* 0 < minAmount <= maxAmount and ID == hash(fields), with
\* minAmount == maxAmount accepted; and setID never overwrites an ID that is
\* already non-zero.
OfferInvariant ==
    call.fn = "offer" =>
        /\ (call.start = "new" /\ call.pc # "new") =>
              /\ call.o.ID = hash(call.o) /\ call.o.ID # ZeroHash
              /\ call.o.Version = 1
              /\ Cmp(call.o.MinAmount, call.args.minAmount) = 0
              /\ Cmp(call.o.MaxAmount, call.args.maxAmount) = 0
        /\ call.marshalErr = "nil" => OfferInvariantHolds(call.o)
        /\ (call.pc = "returned" /\ call.err = "nil") => OfferInvariantHolds(call.out)
        /\ (/\ call.start = "offer" /\ call.marshalErr # "none"
            /\ AmountsInOrder(call.o) /\ Cmp(call.o.MinAmount, call.o.MaxAmount) = 0
            /\ call.o.ExchangeRate.set /\ call.o.Nonce # 0 /\ call.o.ID = hash(call.o)) =>
              call.marshalErr = "nil"
        /\ (call.pc = "returned" /\ call.start = "offer" /\ call.marshalErr = "none"
            /\ call.o.ID # ZeroHash) =>
              call.panic /\ call.out.ID = call.o.ID

\* NewOffer returned an offer whose minAmount is greater than its maxAmount,
\* and MarshalJSON refused it
NewOfferOutOfOrderRefused ==
    /\ call.fn = "offer" /\ call.start = "new" /\ call.pc = "returned"
    /\ call.o.ID = hash(call.o)
    /\ Cmp(call.o.MinAmount, call.o.MaxAmount) > 0
    /\ call.marshalErr = "errMinGreaterThanMax"

\* C27: the secret returned by getSecret is the byte-reversal of the spend
\* key's bytes, in the swap that generated the keys (where it is taken from
\* the DLEq proof) and in a recovered swap (where it is computed with Reverse
\* from the persisted spend key): the same value for the same key; and
\* computing it leaves the spend key's bytes as they were.
SecretIsReversedSpendKey ==
    (call.fn = "getSecret" /\ call.pc = "returned") =>
        /\ Len(call.ret) = Len(call.spendKey)
        /\ \A i \in 1..Len(call.ret) : call.ret[i] = call.spendKey[Len(call.ret) + 1 - i]
        /\ call.privkeys = call.spendKey

\* a recovered swap computed the secret of a spend key that is not a
\* palindrome
RecoveredSecretComputed ==
    /\ call.fn = "getSecret" /\ call.pc = "returned" /\ call.recovered
    /\ call.dleqProof = NoProof
    /\ call.spendKey[1] # call.spendKey[Len(call.spendKey)]
    /\ call.ret = call.secret

ChainIDValidation ==
    (call.fn = "validateChainID" /\ call.pc = "returned") =>
        LET selected == IF call.env = "Development" THEN <<"Ganache", 1337>>
                        ELSE IF call.env = "Stagenet" THEN <<"Goerli", 5>>
                        ELSE <<"Mainnet", 1>>
        IN /\ call.err.nil <=> call.chainID = selected[2]
           /\ ~call.err.nil =>
                 call.err.msg = [expected |-> selected[1], id |-> selected[2],
                                 found |-> call.chainID]

\* Ganache's chain ID was refused for Stagenet: expected Goerli (5), found 1337
GanacheRefusedForStagenet ==
    /\ call.fn = "validateChainID" /\ call.pc = "returned"
    /\ call.env = "Stagenet" /\ call.chainID = 1337
    /\ call.err = [nil |-> FALSE, msg |-> [expected |-> "Goerli", id |-> 5, found |-> 1337]]

\* C31: fundsLocked is true only if a Transfer of lockFunds returned without
\* error: it is false at first, lockFunds returns an error and leaves it as it
\* was when GetBalance or Transfer fails, and once true it is never false again.
FundsLockedOnlyAfterTransfer ==
    /\ [](/\ fundsLocked => \E a \in acts : a.act = "Transfer" /\ a.result = "ok"
          /\ ctor = "new" => ~fundsLocked
          /\ \A balanceOk \in BOOLEAN, tr \in TransferResults :
                LET lk == lockFunds(db, balanceOk, tr)
                IN /\ lk.err <=> ~(balanceOk /\ tr = "ok")
                   /\ lk.err => lk.fundsLocked = fundsLocked
                   /\ ~balanceOk => lk.acts = acts)
    /\ [][fundsLocked => fundsLocked']_vars
    /\ [][(\E a \in acts' \ acts : a.act = "Transfer" /\ a.result # "ok") =>
              fundsLocked' = fundsLocked]_vars

\* a Transfer failed after it had been broadcast, and the funds do not count as
\* locked
TransferFailedFundsNotLocked ==
    /\ ~fundsLocked
    /\ \E a \in acts : a.act = "Transfer" /\ a.result = "errSent"

\* C32: reclaimMonero writes the counterparty's swap private key to the Recovery
\* DB before any sweep: every sweep was issued with that key in the Recovery DB,
\* and when the write or the lookup of the counterparty's keys fails,
\* reclaimMonero returns an error and issues no sweep.
SweepOnlyAfterKeyPersisted ==
    /\ \A a \in acts : a.act = "Sweep" => "counterparty-swap-private-key" \in a.db
    /\ \A o \in ReclaimOutcomes :
          LET r == reclaimMonero(o)
              lookupFails == /\ o.putOk
                             /\ ~(XMRTakerKeyFields \subseteq fields)
                             /\ ~o.getOk
          IN /\ ~o.putOk => (r.err /\ r.acts = acts /\ r.db = db)
             /\ lookupFails => (r.err /\ r.acts = acts)
             /\ r.acts # acts => "counterparty-swap-private-key" \in r.db

\* a resumed swap swept the Monero back with the counterparty's keys looked up
\* in the Recovery DB
SweptWithKeysFromRecoveryDB ==
    /\ mode = "ongoing"
    /\ \E a \in acts : a.act = "Sweep" /\ a.result = "ok"

\* C33: every call of Exit eventually returns under fair scheduling, also an
\* Exit issued after the context was cancelled and a second Exit issued while a
\* first one waits in the ContractReady-expected branch; and every event taken
\* from the event channel has its reply channel answered or closed: a sender
\* still waiting has its event on the channel or in the hands of a handler.
EveryExitReturns ==
    /\ [](~crashed =>
            \A s \in Senders : snd[s] = "waiting" =>
                \/ \E k \in 1..Len(eventCh) : eventCh[k].from = s
                \/ \E l \in Loops : cur[l].from = s)
    /\ \A i \in ExitCallers :
          (snd[ExitCaller(i)] = "waiting") ~> (snd[ExitCaller(i)] = "returned" \/ crashed)

\* C34: in a swap resumed with newSwapStateFromOngoing, no log is taken up by
\* the contract event watcher and no event handler runs before the contract,
\* the timeouts, the keys, contractSwapID and contractSwap have been set.
NoHandlerBeforeFieldsSet ==
    (mode = "ongoing" /\ ~crashed /\ ~(OngoingFields \subseteq fields)) =>
        /\ putSeq = 0
        /\ \A l \in Loops : pc[l] \notin {"handling", "exitWait"}

\* C35: when newSwapStateFromStart has returned an error, the call has left no
\* swap of the offer registered as ongoing in the Swap Manager.
FailedStartLeavesNoOngoingSwap ==
    (mode = "start" /\ ctor = "failed" /\ built.err = "err") => ~ongoing

\* C36: when newSwapStateFromStart or newSwapStateFromOngoing has returned an
\* error, the per-swap context created for the attempt is cancelled, and so no
\* goroutine of the failed swap keeps running.
FailedConstructionCancelsContext ==
    (ctor = "failed" /\ built.err = "err" /\ built.ctx /\ ~crashed) =>
        /\ ctxCancelled
        /\ \A l \in Loops : pc[l] \notin {"handling", "exitWait"}

\* C37: when the claim transaction was carried out (through the tx sender, or
\* through a relayer whose receipt was validated), claimFunds returns that
\* transaction's hash and a nil error, also when the balance query made after
\* the claim fails.
SuccessfulClaimIsReported ==
    (/\ call.fn = "claimFunds" /\ call.pc = "returned"
     /\ \/ call.dRet = "nil"
        \/ call.path = "direct" /\ call.direct > 0 /\ call.ret # "errClaim") =>
        /\ call.ret = "nil"
        /\ call.hash = IF call.path = "direct" THEN SenderTxHash ELSE call.dHash

\* C38: all on-chain references of one swap designate the SwapFactory the swap
\* was created on, the address given to setContract: the Ready and Refunded
\* log filters, the trusted forwarder the relay claim request is signed for
\* (that contract's forwarder), the claim request and the receipt check.
OneSwapFactoryPerSwap ==
    (call.fn = "swapContract" /\ call.pc = "returned" /\ call.err = "nil") =>
        /\ call.contractAddr = call.address
        /\ call.readyFilter = call.address
        /\ call.refundedFilter = call.address
        /\ call.forwarderAddress = TrustedForwarder(call.address)
        /\ call.reqSwapFactoryAddress = call.address
        /\ call.receiptContractAddr = call.address

====
